---- MODULE Spec2Model ----
(***************************************************************************)
(* casbin-blob-adapter: an adapter that keeps a casbin policy document as  *)
(* one blob of an Azure Blob Storage container.                            *)
(*                                                                         *)
(* Two versions of the adapter are modelled side by side:                  *)
(*   "eager"  the adapter whose constructor runs initAdapter and creates   *)
(*            the container and the blob when they are absent;             *)
(*   "lazy"   the adapter that keeps an initiated flag and lets the first  *)
(*            not-found LoadPolicy pass.                                   *)
(*                                                                         *)
(* Text (names, rule fields, documents) is a sequence of one-character     *)
(* strings, so that joining, splitting and trimming are computed.          *)
(*                                                                         *)
(* Three specifications:                                                   *)
(*   Spec        the calls on one adapter, each call one step, with the    *)
(*               other actors of the store;                                *)
(*   SpecStruct  the calls on an adapter built as a struct literal;        *)
(*   SpecConc    the overlapping calls of two adapters, one step per store *)
(*               call.                                                     *)
(***************************************************************************)
EXTENDS Integers, Sequences, FiniteSets, TLC

(***************************************************************************)
(* Bounds of the model.                                                    *)
(***************************************************************************)
\* most pages a listing is cut into
MaxPages == 2

(***************************************************************************)
(* Characters and text helpers.                                            *)
(***************************************************************************)
NL == "\n"
SP == " "
COMMA == ","
HASH == "#"

\* strings.HasPrefix
HasPrefix(s, prefix) ==
    /\ Len(prefix) <= Len(s)
    /\ SubSeq(s, 1, Len(prefix)) = prefix

\* unicode.IsSpace, over the characters of the model
IsSpace(c) == c \in {SP, NL, "\t", "\r"}

RECURSIVE TrimLeft(_)
TrimLeft(s) ==
    IF s # <<>> /\ IsSpace(Head(s)) THEN TrimLeft(Tail(s)) ELSE s

RECURSIVE TrimRightSpace(_)
TrimRightSpace(s) ==
    IF s # <<>> /\ IsSpace(s[Len(s)])
    THEN TrimRightSpace(SubSeq(s, 1, Len(s) - 1))
    ELSE s

\* strings.TrimSpace
TrimSpace(s) == TrimLeft(TrimRightSpace(s))

\* strings.TrimRight(s, "\n")
RECURSIVE TrimRightNL(_)
TrimRightNL(s) ==
    IF s # <<>> /\ s[Len(s)] = NL
    THEN TrimRightNL(SubSeq(s, 1, Len(s) - 1))
    ELSE s

\* the pieces of s between the occurrences of the character sep
RECURSIVE SplitAcc(_, _, _)
SplitAcc(s, sep, cur) ==
    IF s = <<>> THEN <<cur>>
    ELSE IF Head(s) = sep THEN <<cur>> \o SplitAcc(Tail(s), sep, <<>>)
    ELSE SplitAcc(Tail(s), sep, Append(cur, Head(s)))

Split(s, sep) == SplitAcc(s, sep, <<>>)

\* strings.Join
RECURSIVE Join(_, _)
Join(ss, sep) ==
    IF ss = <<>> THEN <<>>
    ELSE IF Len(ss) = 1 THEN ss[1]
    ELSE ss[1] \o sep \o Join(Tail(ss), sep)

\* the elements of a sequence
Range(s) == {s[i] : i \in 1..Len(s)}

\* the sequences that list every element of the finite set S once
RECURSIVE Orders(_)
Orders(S) ==
    IF S = {} THEN {<<>>}
    ELSE UNION {{<<x>> \o o : o \in Orders(S \ {x})} : x \in S}

(***************************************************************************)
(* Policy model and codec.                                                 *)
(*                                                                         *)
(* A policy model maps each rule type of the model file to its list of     *)
(* rules; the section of a rule type is its first character.  A rule is a  *)
(* sequence of fields, a field a text.                                     *)
(***************************************************************************)
PT_p == <<"p">>
PT_p2 == <<"p", "2">>
PT_g == <<"g">>

\* the rule types the model file declares
ModelPTypes == {PT_p, PT_p2, PT_g}

\* key[:1]
Section(ptype) == SubSeq(ptype, 1, 1)

\* the keys of model[sec]
SectionPTypes(m, sec) == {pt \in DOMAIN m : Section(pt) = sec}

EmptyModel == [pt \in ModelPTypes |-> <<>>]

\* util.ArrayToString
ArrayToString(rule) == Join(rule, <<COMMA, SP>>)

\* writeRule: ptype, ", ", the fields joined by ", ", and a newline
writeRule(buf, ptype, rule) ==
    buf \o ptype \o <<COMMA, SP>> \o ArrayToString(rule) \o <<NL>>

\* for _, rule := range ast.Policy { writeRule(&buf, ptype, rule) }
RECURSIVE WritePolicy(_, _, _)
WritePolicy(buf, ptype, rules) ==
    IF rules = <<>> THEN buf
    ELSE WritePolicy(writeRule(buf, ptype, Head(rules)), ptype, Tail(rules))

\* for ptype, ast := range model[sec], the keys visited in the given order
RECURSIVE WriteSection(_, _, _)
WriteSection(buf, m, order) ==
    IF order = <<>> THEN buf
    ELSE WriteSection(WritePolicy(buf, Head(order), m[Head(order)]), m, Tail(order))

\* the text SavePolicy hands to savePolicyBlob when the two map iterations
\* visit the rule types in the orders orderP and orderG
EncodeIn(m, orderP, orderG) ==
    TrimRightNL(WriteSection(WriteSection(<<>>, m, orderP), m, orderG))

\* A Go map is iterated in an unspecified order: every order of the rule
\* types of a section is a possible outcome.
Encodings(m) ==
    {EncodeIn(m, op, og) :
        op \in Orders(SectionPTypes(m, <<"p">>)),
        og \in Orders(SectionPTypes(m, <<"g">>))}

\* bufio.ScanLines: the lines of the text, a final newline ending the last
\* line, a carriage return at the end of a line dropped
DropCR(line) ==
    IF line # <<>> /\ line[Len(line)] = "\r"
    THEN SubSeq(line, 1, Len(line) - 1)
    ELSE line

ScanLines(text) ==
    LET pieces == Split(text, NL)
        kept == IF pieces[Len(pieces)] = <<>>
                THEN SubSeq(pieces, 1, Len(pieces) - 1)
                ELSE pieces
    IN  [i \in 1..Len(kept) |-> DropCR(kept[i])]

\* csv.Reader with Comma ',' and TrimLeadingSpace, on one line
CsvRead(line) ==
    LET pieces == Split(line, COMMA)
    IN  [i \in 1..Len(pieces) |-> TrimLeft(pieces[i])]

\* persist.LoadPolicyLine: an empty line and a comment are skipped, a line
\* whose tag is no rule type of the model is rejected, a rule the model
\* already holds is skipped, any other rule is appended to its rule type.
LoadPolicyLine(line, m) ==
    IF line = <<>> \/ Head(line) = HASH THEN [err |-> "nil", model |-> m]
    ELSE LET tokens == CsvRead(line)
             key == tokens[1]
             rule == Tail(tokens)
         IN  IF key \notin DOMAIN m
             THEN [err |-> "ErrParse", model |-> m]
             ELSE IF rule \in Range(m[key])
             THEN [err |-> "nil", model |-> m]
             ELSE [err |-> "nil",
                   model |-> [m EXCEPT ![key] = Append(@, rule)]]

\* the scan loop that goes on after an error of the handler and returns the
\* first error when the document is read
RECURSIVE ScanLoop_Continue(_, _, _)
ScanLoop_Continue(lines, m, fed) ==
    IF lines = <<>> THEN [err |-> "nil", model |-> m, fed |-> fed]
    ELSE LET r == LoadPolicyLine(TrimSpace(Head(lines)), m)
             rest == ScanLoop_Continue(Tail(lines), r.model, fed + 1)
         IN  IF r.err # "nil" THEN [rest EXCEPT !.err = r.err] ELSE rest

\* the scan loop without strings.TrimSpace
RECURSIVE ScanLoop_NoTrim(_, _, _)
ScanLoop_NoTrim(lines, m, fed) ==
    IF lines = <<>> THEN [err |-> "nil", model |-> m, fed |-> fed]
    ELSE LET r == LoadPolicyLine(Head(lines), m)
         IN  IF r.err # "nil"
             THEN [err |-> r.err, model |-> r.model, fed |-> fed + 1]
             ELSE ScanLoop_NoTrim(Tail(lines), r.model, fed + 1)

\* the scan loop of loadPolicyBlob: every line is trimmed and handed to the
\* handler; the first error ends the loop.  fed counts the lines handed over.
RECURSIVE ScanLoop(_, _, _)
ScanLoop(lines, m, fed) ==
    IF lines = <<>> THEN [err |-> "nil", model |-> m, fed |-> fed]
    ELSE LET r == LoadPolicyLine(TrimSpace(Head(lines)), m)
         IN  IF r.err # "nil"
             THEN [err |-> r.err, model |-> r.model, fed |-> fed + 1]
             ELSE ScanLoop(Tail(lines), r.model, fed + 1)

Decode(text, m) == ScanLoop(ScanLines(text), m, 0)

(***************************************************************************)
(* Inputs of the model.                                                    *)
(***************************************************************************)
A == <<"a">>
B == <<"b">>

\* one permission rule and one grouping rule
M1 == [EmptyModel EXCEPT ![PT_p] = << <<A, B>> >>, ![PT_g] = << <<A, A>> >>]
\* two rules of one type, and a second permission rule type
M2 == [EmptyModel EXCEPT ![PT_p] = << <<B, A>>, <<A, A>> >>,
                         ![PT_p2] = << <<B, B>> >>]
\* a rule with a field that holds a comma
M3 == [EmptyModel EXCEPT ![PT_p] = << <<A, <<"a", COMMA, "b">> >> >>]
\* a rule with a field that holds a newline
M4 == [EmptyModel EXCEPT ![PT_g] = << <<A, <<"a", NL, "b">> >> >>]

\* the models the engine hands to SavePolicy
Models == {EmptyModel, M1, M2, M3, M4}

\* the models the engine hands to LoadPolicy: the engine loads into a model
\* whose policy was cleared; M1 stands for a caller that did not clear it
LoadModels == {EmptyModel, M1}

\* documents another writer may leave in the blob
ForeignDocs == {<<>>, <<"q", COMMA, SP, "a">>, <<SP, NL, "p", COMMA, "b", NL>>,
                <<"p", COMMA, "b", NL, "q", COMMA, "a", NL, "p", COMMA, "a">>,
                <<SP, NL, NL, SP, SP>>}

Adapters == {"a1", "a2"}

\* the adapter of the main specification, whose calls do not overlap
MainAdapters == {"a1"}

\* the target names, and names that have them as a proper prefix
ContainerName == <<"c">>
BlobName == <<"b">>
OtherContainer == <<"c", "x">>
OtherBlob == <<"b", "x">>

(***************************************************************************)
(* State.                                                                  *)
(***************************************************************************)
VARIABLES
    version,     \* which adapter is modelled: "eager" or "lazy"
    containers,  \* the store: the names of the containers that exist
    blobs,       \* the store: <<container, blob>> |-> content, for the blobs that exist
    adapter,     \* per adapter: nil, or the fields of the Adapter struct
    last,        \* the last call made: its operation, arguments, result and store calls
    saved,       \* the adapters on which a SavePolicy has returned nil
    disturbed,   \* the adapters constructed before another actor deleted the target
    loaded,      \* the adapters on which a LoadPolicy has been called
    tolerated,   \* the pairs of an adapter and the not-found code of a LoadPolicy on it that returned nil
    proc         \* per adapter: the call in progress that overlaps other calls

vars == <<version, containers, blobs, adapter, last, saved, disturbed,
          loaded, tolerated, proc>>

NoAdapter == [ok |-> FALSE, container |-> <<>>, blob |-> <<>>, timeout |-> 0,
              initiated |-> FALSE]

NoArgs == [ctor |-> "none", account |-> <<>>, secret |-> <<>>,
           container |-> <<>>, blob |-> <<>>, options |-> <<>>]

\* op: the operation; a: the adapter it was called on; args: the arguments
\* of a constructor; pre: the adapter's fields before the call; in, out: the
\* model handed to the call, before and after it; err: the error returned;
\* calls: the store calls issued, in order; dl: the result of DownloadStream;
\* text: the text handed to UploadStream; fed: the lines handed to the parser
\* cc, ul: the results of CreateContainer and UploadStream in SavePolicy; prev: for a SavePolicy,
\* whether the call made just before it was a SavePolicy on the same adapter
\* that returned nil; rule: the arguments of an
\* unimplemented operation; n: the parity of the number of calls made, which
\* tells a call from the one before it when both have the same result;
\* first: for a LoadPolicy, whether it is the first LoadPolicy called on the
\* adapter; graced: for a LoadPolicy, whether an earlier not-found LoadPolicy
\* on the adapter has returned nil; bound: the timeout of the store calls
\* of the call, 0 when it made none; flow: 1 for a LoadPolicy called right
\* after the constructor returned the adapter, the target container absent,
\* 2 for a SavePolicy called right after such a LoadPolicy returned nil, 0
\* otherwise; kinds: for a LoadPolicy, the not-found codes of the earlier
\* LoadPolicy calls on the adapter that returned nil
NoRule == [ptype |-> <<>>, rule |-> <<>>, fieldIndex |-> 0]

NoCall == [op |-> "none", n |-> 0, a |-> "none", args |-> NoArgs, pre |-> NoAdapter,
           in |-> EmptyModel, out |-> EmptyModel, err |-> "nil",
           calls |-> <<>>, dl |-> "none", cc |-> "none", ul |-> "none",
           text |-> <<>>,
           fed |-> 0, prev |-> FALSE, rule |-> NoRule,
           first |-> FALSE, graced |-> FALSE, bound |-> 0, flow |-> 0,
           kinds |-> {}]

\* A call in progress.  pc: the store call it makes next ("idle": no call,
\* "done": it has returned); op: the operation; in, text: the model and the
\* text of a SavePolicy; err: the error returned; upl: its UploadStream is
\* the last one that succeeded on the target; ovl: another call was in
\* progress while it was
NoProc == [pc |-> "idle", op |-> "none", in |-> EmptyModel, text |-> <<>>,
           err |-> "nil", upl |-> FALSE, ovl |-> FALSE]

Store == [containers |-> containers, blobs |-> blobs]

(***************************************************************************)
(* The object store, as the client interface gives access to it.  Every    *)
(* call can fail with an error of the transport (a timeout, a refused      *)
(* credential); otherwise its result is decided by the store.  A call that *)
(* changes the store can also fail after the store has applied it: the     *)
(* timeout of the call elapses, or the answer is lost, once the change is  *)
(* made.                                                                   *)
(***************************************************************************)
BlobKey(c, b) == <<c, b>>

\* the key of the target blob
TargetKey == BlobKey(ContainerName, BlobName)

\* client.CreateContainer
CreateContainerOutcomes(st, c) ==
    {[st |-> st, err |-> "ErrTransport"]}
    \cup (IF c \in st.containers
          THEN {[st |-> st, err |-> e] :
                    e \in {"ContainerAlreadyExists", "ResourceAlreadyExists"}}
          ELSE {[st |-> [st EXCEPT !.containers = @ \cup {c}], err |-> e] :
                    e \in {"nil", "ErrTransport"}})

\* client.DownloadStream
DownloadStreamOutcomes(st, c, b) ==
    {[err |-> "ErrTransport", body |-> <<>>]}
    \cup {IF c \notin st.containers
          THEN [err |-> "ContainerNotFound", body |-> <<>>]
          ELSE IF BlobKey(c, b) \notin DOMAIN st.blobs
          THEN [err |-> "BlobNotFound", body |-> <<>>]
          ELSE [err |-> "nil", body |-> st.blobs[BlobKey(c, b)]]}

\* client.UploadStream: the blob is created, or its content replaced;
\* applied: whether the store has the text
UploadStreamOutcomes(st, c, b, text) ==
    {[st |-> st, err |-> "ErrTransport", applied |-> FALSE]}
    \cup (IF c \notin st.containers
          THEN {[st |-> st, err |-> "ContainerNotFound", applied |-> FALSE]}
          ELSE {[st |-> [st EXCEPT !.blobs =
                           [k \in DOMAIN @ \cup {BlobKey(c, b)} |->
                               IF k = BlobKey(c, b) THEN text ELSE @[k]]],
                 err |-> e, applied |-> TRUE] :
                    e \in {"nil", "ErrTransport"}})

\* The pages a listing of the items can come in: every item on exactly one
\* page, at least one page (a pager always has a first page), pages possibly
\* empty.
Paginations(items) ==
    {pg \in UNION {[1..n -> SUBSET items] : n \in 1..MaxPages} :
        /\ UNION Range(pg) = items
        /\ \A i, j \in DOMAIN pg : i # j => pg[i] \cap pg[j] = {}}

\* client.NewListContainersPager with a prefix: the pages, and the page whose
\* request fails (0: none)
ListContainersOutcomes(st, prefix) ==
    UNION {{[pages |-> pg, failAt |-> f, failErr |-> "ErrTransport"] :
               f \in 0..Len(pg)} :
        pg \in Paginations({c \in st.containers : HasPrefix(c, prefix)})}

\* client.NewListBlobsFlatPager with a prefix
ListBlobsOutcomes(st, container, prefix) ==
    IF container \notin st.containers
    THEN {[pages |-> << {} >>, failAt |-> 1, failErr |-> "ContainerNotFound"]}
    ELSE UNION {{[pages |-> pg, failAt |-> f, failErr |-> "ErrTransport"] :
                    f \in 0..Len(pg)} :
            pg \in Paginations({k[2] : k \in {x \in DOMAIN st.blobs :
                                    x[1] = container /\ HasPrefix(x[2], prefix)}})}

(***************************************************************************)
(* The adapter.                                                            *)
(***************************************************************************)
\* checkContainerBlobArguments without the check of the blob name
checkContainerBlobArguments_ContainerOnly(container, blob) ==
    IF Len(container) = 0 THEN "ErrInvalidContainer" ELSE "nil"

\* checkContainerBlobArguments
checkContainerBlobArguments(container, blob) ==
    IF Len(container) = 0 THEN "ErrInvalidContainer"
    ELSE IF Len(blob) = 0 THEN "ErrInvalidBlob"
    ELSE "nil"

\* checkAccountCredentialsArguments
checkAccountCredentialsArguments(account, cred) ==
    IF Len(account) = 0 THEN "ErrInvalidAccount"
    ELSE IF cred = "nil" THEN "ErrInvalidCredential"
    ELSE "nil"

\* checkAccountKeyArguments
checkAccountKeyArguments(account, key) ==
    IF Len(account) = 0 THEN "ErrInvalidAccount"
    ELSE IF Len(key) = 0 THEN "ErrInvalidKey"
    ELSE "nil"

\* the default of the timeout field, in seconds
DefaultTimeout == 10

\* WithTimeout(d), d in seconds
WithTimeout(d) == [kind |-> "WithTimeout", d |-> d]

\* the option of the tests, func(a *Adapter) { a.c = &mockBlobClient{} }
WithClient == [kind |-> "client", d |-> 0]

\* whether an option has given the adapter its client: a.c != nil
HasClient(options) == \E i \in 1..Len(options) : options[i].kind = "client"

\* the constructor that leaves the options aside
ApplyOptions_Ignored(ad, options) == ad

\* for _, option := range options { option(a) }
RECURSIVE ApplyOptions(_, _)
ApplyOptions(ad, options) ==
    IF options = <<>> THEN ad
    ELSE ApplyOptions(IF Head(options).kind = "WithTimeout"
                      THEN [ad EXCEPT !.timeout = Head(options).d]
                      ELSE ad,
                      Tail(options))

\* the bound of the calls on the store made in one call of the adapter:
\* context.WithTimeout(context.Background(), a.timeout)
contextTimeout(ad) == ad.timeout

\* the loop without the test on found: every page is requested
RECURSIVE PagerLoop_ReadAll(_, _, _)
PagerLoop_ReadAll(listing, i, name) ==
    IF i > Len(listing.pages)
    THEN [found |-> FALSE, err |-> "nil", fetched |-> i - 1]
    ELSE IF i = listing.failAt
    THEN [found |-> FALSE, err |-> listing.failErr, fetched |-> i]
    ELSE LET rest == PagerLoop_ReadAll(listing, i + 1, name)
         IN  IF name \in listing.pages[i]
             THEN [rest EXCEPT !.found = (rest.err = "nil")]
             ELSE rest

\* the loop that takes an item that begins with the name for the name
RECURSIVE PagerLoop_Prefix(_, _, _)
PagerLoop_Prefix(listing, i, name) ==
    IF i > Len(listing.pages)
    THEN [found |-> FALSE, err |-> "nil", fetched |-> i - 1]
    ELSE IF i = listing.failAt
    THEN [found |-> FALSE, err |-> listing.failErr, fetched |-> i]
    ELSE IF \E item \in listing.pages[i] : HasPrefix(item, name)
    THEN [found |-> TRUE, err |-> "nil", fetched |-> i]
    ELSE PagerLoop_Prefix(listing, i + 1, name)

\* the loop  for pager.More() && !found { NextPage; scan the page }
\* from page i on: whether the name was found, the error, the pages requested
RECURSIVE PagerLoop(_, _, _)
PagerLoop(listing, i, name) ==
    IF i > Len(listing.pages)
    THEN [found |-> FALSE, err |-> "nil", fetched |-> i - 1]
    ELSE IF i = listing.failAt
    THEN [found |-> FALSE, err |-> listing.failErr, fetched |-> i]
    ELSE IF name \in listing.pages[i]
    THEN [found |-> TRUE, err |-> "nil", fetched |-> i]
    ELSE PagerLoop(listing, i + 1, name)

Calls(name, n) == [i \in 1..n |-> name]

\* createContainerIfNotExist without the test on found
createContainerIfNotExist_Always(st, container) ==
    UNION {
        LET r == PagerLoop(l, 1, container)
            listed == Calls("ListContainers", r.fetched)
        IN  IF r.err # "nil"
            THEN {[st |-> st, err |-> r.err, calls |-> listed]}
            ELSE {[st |-> o.st,
                   err |-> IF o.err \in {"ContainerAlreadyExists",
                                         "ResourceAlreadyExists"}
                           THEN "nil" ELSE o.err,
                   calls |-> Append(listed, "CreateContainer")] :
                      o \in CreateContainerOutcomes(st, container)}
        : l \in ListContainersOutcomes(st, container)}

\* Adapter.createContainerIfNotExist
createContainerIfNotExist(st, container) ==
    UNION {
        LET r == PagerLoop(l, 1, container)
            listed == Calls("ListContainers", r.fetched)
        IN  IF r.err # "nil"
            THEN {[st |-> st, err |-> r.err, calls |-> listed]}
            ELSE IF r.found
            THEN {[st |-> st, err |-> "nil", calls |-> listed]}
            ELSE {[st |-> o.st, err |-> o.err,
                   calls |-> Append(listed, "CreateContainer")] :
                      o \in CreateContainerOutcomes(st, container)}
        : l \in ListContainersOutcomes(st, container)}

\* createBlobIfNotExist with the test on found inverted
createBlobIfNotExist_Inverted(st, container, blob) ==
    UNION {
        LET r == PagerLoop(l, 1, blob)
            listed == Calls("ListBlobs", r.fetched)
        IN  IF r.err # "nil"
            THEN {[st |-> st, err |-> r.err, calls |-> listed]}
            ELSE IF ~r.found
            THEN {[st |-> st, err |-> "nil", calls |-> listed]}
            ELSE {[st |-> o.st, err |-> o.err,
                   calls |-> Append(listed, "UploadStream")] :
                      o \in UploadStreamOutcomes(st, container, blob, <<>>)}
        : l \in ListBlobsOutcomes(st, container, blob)}

\* Adapter.createBlobIfNotExist
createBlobIfNotExist(st, container, blob) ==
    UNION {
        LET r == PagerLoop(l, 1, blob)
            listed == Calls("ListBlobs", r.fetched)
        IN  IF r.err # "nil"
            THEN {[st |-> st, err |-> r.err, calls |-> listed]}
            ELSE IF r.found
            THEN {[st |-> st, err |-> "nil", calls |-> listed]}
            ELSE {[st |-> o.st, err |-> o.err,
                   calls |-> Append(listed, "UploadStream")] :
                      o \in UploadStreamOutcomes(st, container, blob, <<>>)}
        : l \in ListBlobsOutcomes(st, container, blob)}

\* initAdapter without the call of createBlobIfNotExist
initAdapter_ContainerOnly(st, ad) ==
    createContainerIfNotExist(st, ad.container)

\* initAdapter that goes on to the blob after an error of
\* createContainerIfNotExist
initAdapter_Continue(st, ad) ==
    UNION {
        {[st |-> b.st, err |-> IF c.err # "nil" THEN c.err ELSE b.err,
          calls |-> c.calls \o b.calls] :
             b \in createBlobIfNotExist(c.st, ad.container, ad.blob)}
        : c \in createContainerIfNotExist(st, ad.container)}

\* Adapter.initAdapter: the container, then the blob
initAdapter(st, ad) ==
    UNION {
        IF c.err # "nil" THEN {c}
        ELSE {[st |-> b.st, err |-> b.err, calls |-> c.calls \o b.calls] :
                 b \in createBlobIfNotExist(c.st, ad.container, ad.blob)}
        : c \in createContainerIfNotExist(st, ad.container)}

\* what a constructor is called with
Ctors == {"NewAdapter", "NewAdapterFromConnectionString",
          "NewAdapterFromSharedKeyCredential"}

\* the lists of options a constructor is called with
OptionLists ==
    {<<>>, <<WithTimeout(5)>>, <<WithClient, WithTimeout(5)>>,
     <<WithTimeout(5), WithClient>>, <<WithTimeout(5), WithTimeout(7)>>}

\* account, and secret: the credential (<<>>: nil), the connection string or
\* the key of the constructor; options: the options, in their order.  The
\* options are varied in the calls whose other arguments are all given: a
\* constructor returns an error for an empty argument before it applies
\* an option.
CtorArgs ==
    {args \in [ctor : Ctors,
               account : {<<>>, <<"s">>},
               secret : {<<>>, <<"k">>},
               container : {<<>>, ContainerName},
               blob : {<<>>, BlobName},
               options : OptionLists] :
        \/ args.options = <<>>
        \/ /\ args.account # <<>> /\ args.secret # <<>>
           /\ args.container # <<>> /\ args.blob # <<>>}

\* the calls of the main specification: account and secret given, no option
MainCtorArgs ==
    {args \in CtorArgs :
        args.account # <<>> /\ args.secret # <<>> /\ args.options = <<>>}

\* the check a public constructor makes before it calls newAdapter
checkConstructorArguments(args) ==
    CASE args.ctor = "NewAdapter" ->
            checkAccountCredentialsArguments(
                args.account, IF args.secret = <<>> THEN "nil" ELSE "cred")
      [] args.ctor = "NewAdapterFromConnectionString" ->
            IF Len(args.secret) = 0 THEN "ErrInvalidConnectionString" ELSE "nil"
      [] args.ctor = "NewAdapterFromSharedKeyCredential" ->
            checkAccountKeyArguments(args.account, args.secret)

CtorFailed(st, err, calls) ==
    [st |-> st, err |-> err, ad |-> NoAdapter, calls |-> calls]

\* the Adapter struct newAdapter builds, the options applied
NewStruct(args) ==
    ApplyOptions([ok |-> TRUE, container |-> args.container, blob |-> args.blob,
                  timeout |-> DefaultTimeout, initiated |-> FALSE],
                 args.options)

\* newAdapter of the eager adapter: the names are checked, the struct is
\* built, the client is created (which can fail), initAdapter runs
newAdapterEager(st, args) ==
    IF checkContainerBlobArguments(args.container, args.blob) # "nil"
    THEN {CtorFailed(st, checkContainerBlobArguments(args.container, args.blob), <<>>)}
    ELSE (IF HasClient(args.options) THEN {}
          ELSE {CtorFailed(st, "ErrClient", <<>>)})
         \cup {IF i.err # "nil"
               THEN CtorFailed(i.st, i.err, i.calls)
               ELSE [st |-> i.st, err |-> "nil", ad |-> NewStruct(args),
                     calls |-> i.calls]
               : i \in initAdapter(st, NewStruct(args))}

\* the lazy constructor that runs initAdapter
newAdapterLazy_Init(st, args) ==
    newAdapterEager(st, args)

\* newAdapter of the lazy adapter, and the creation of the client that
\* follows it in the public constructors: no store call
newAdapterLazy(st, args) ==
    IF checkContainerBlobArguments(args.container, args.blob) # "nil"
    THEN {CtorFailed(st, checkContainerBlobArguments(args.container, args.blob), <<>>)}
    ELSE (IF HasClient(args.options) THEN {}
          ELSE {CtorFailed(st, "ErrClient", <<>>)})
         \cup {[st |-> st, err |-> "nil", ad |-> NewStruct(args),
                calls |-> <<>>]}

\* the constructors with the names checked before the account and the secret
NewAdapterOutcomes_NamesFirst(ver, st, args) ==
    IF checkContainerBlobArguments(args.container, args.blob) # "nil"
    THEN {CtorFailed(st, checkContainerBlobArguments(args.container, args.blob), <<>>)}
    ELSE IF checkConstructorArguments(args) # "nil"
    THEN {CtorFailed(st, checkConstructorArguments(args), <<>>)}
    ELSE IF ver = "eager" THEN newAdapterEager(st, args)
    ELSE newAdapterLazy(st, args)

\* NewAdapter, NewAdapterFromConnectionString, NewAdapterFromSharedKeyCredential
NewAdapterOutcomes(ver, st, args) ==
    IF checkConstructorArguments(args) # "nil"
    THEN {CtorFailed(st, checkConstructorArguments(args), <<>>)}
    ELSE IF ver = "eager" THEN newAdapterEager(st, args)
    ELSE newAdapterLazy(st, args)

\* the eager adapter with the two wrapping errors exchanged
downloadErrorEager_Swapped(ad, code) ==
    [ad |-> ad,
     err |-> IF code = "ContainerNotFound" THEN "ErrBlobDoesNotExist"
             ELSE IF code = "BlobNotFound" THEN "ErrContainerDoesNotExist"
             ELSE code]

\* what loadPolicyBlob does with an error of DownloadStream: the eager
\* adapter wraps the two not-found codes
downloadErrorEager(ad, code) ==
    [ad |-> ad,
     err |-> IF code = "ContainerNotFound" THEN "ErrContainerDoesNotExist"
             ELSE IF code = "BlobNotFound" THEN "ErrBlobDoesNotExist"
             ELSE code]

\* the lazy adapter without the assignment a.initiated = true
downloadErrorLazy_NoFlag(ad, code) ==
    IF code \in {"ContainerNotFound", "BlobNotFound"}
    THEN IF ~ad.initiated
         THEN [ad |-> ad, err |-> "nil"]
         ELSE [ad |-> ad,
               err |-> IF code = "ContainerNotFound"
                       THEN "ErrContainerDoesNotExist"
                       ELSE "ErrBlobDoesNotExist"]
    ELSE [ad |-> ad, err |-> code]

\* the lazy adapter that clears initiated when it returns a not-found error
downloadErrorLazy_Resets(ad, code) ==
    IF code \in {"ContainerNotFound", "BlobNotFound"}
    THEN IF ~ad.initiated
         THEN [ad |-> [ad EXCEPT !.initiated = TRUE], err |-> "nil"]
         ELSE [ad |-> [ad EXCEPT !.initiated = FALSE],
               err |-> IF code = "ContainerNotFound"
                       THEN "ErrContainerDoesNotExist"
                       ELSE "ErrBlobDoesNotExist"]
    ELSE [ad |-> ad, err |-> code]

\* the lazy adapter that sets initiated on every error of DownloadStream
downloadErrorLazy_AnyError(ad, code) ==
    IF code \in {"ContainerNotFound", "BlobNotFound"}
    THEN IF ~ad.initiated
         THEN [ad |-> [ad EXCEPT !.initiated = TRUE], err |-> "nil"]
         ELSE [ad |-> ad,
               err |-> IF code = "ContainerNotFound"
                       THEN "ErrContainerDoesNotExist"
                       ELSE "ErrBlobDoesNotExist"]
    ELSE [ad |-> [ad EXCEPT !.initiated = TRUE], err |-> code]

\* the lazy adapter that lets every BlobNotFound pass, and keeps the one
\* grace for ContainerNotFound
downloadErrorLazy_PerKind(ad, code) ==
    IF code = "ContainerNotFound"
    THEN IF ~ad.initiated
         THEN [ad |-> [ad EXCEPT !.initiated = TRUE], err |-> "nil"]
         ELSE [ad |-> ad, err |-> "ErrContainerDoesNotExist"]
    ELSE IF code = "BlobNotFound"
    THEN [ad |-> ad, err |-> "nil"]
    ELSE [ad |-> ad, err |-> code]

\* the lazy adapter lets a not-found pass while initiated is false, and
\* sets initiated
downloadErrorLazy(ad, code) ==
    IF code \in {"ContainerNotFound", "BlobNotFound"}
    THEN IF ~ad.initiated
         THEN [ad |-> [ad EXCEPT !.initiated = TRUE], err |-> "nil"]
         ELSE [ad |-> ad,
               err |-> IF code = "ContainerNotFound"
                       THEN "ErrContainerDoesNotExist"
                       ELSE "ErrBlobDoesNotExist"]
    ELSE [ad |-> ad, err |-> code]

\* loadPolicyBlob that calls DownloadStream again after an error of the
\* transport
loadPolicyBlob_Retry(ver, st, ad, m) ==
    LET Result(d, calls) ==
            IF d.err # "nil"
            THEN LET r == IF ver = "eager" THEN downloadErrorEager(ad, d.err)
                          ELSE downloadErrorLazy(ad, d.err)
                 IN  [ad |-> r.ad, err |-> r.err, out |-> m, dl |-> d.err,
                      calls |-> calls, fed |-> 0]
            ELSE LET r == Decode(d.body, m)
                 IN  [ad |-> ad, err |-> r.err, out |-> r.model, dl |-> "nil",
                      calls |-> calls, fed |-> r.fed]
    IN  UNION {
            IF d.err = "ErrTransport"
            THEN {Result(d2, <<"DownloadStream", "DownloadStream">>) :
                     d2 \in DownloadStreamOutcomes(st, ad.container, ad.blob)}
            ELSE {Result(d, <<"DownloadStream">>)}
            : d \in DownloadStreamOutcomes(st, ad.container, ad.blob)}

\* Adapter.loadPolicyBlob
loadPolicyBlob(ver, st, ad, m) ==
    {IF d.err # "nil"
     THEN LET r == IF ver = "eager" THEN downloadErrorEager(ad, d.err)
                   ELSE downloadErrorLazy(ad, d.err)
          IN  [ad |-> r.ad, err |-> r.err, out |-> m, dl |-> d.err,
               calls |-> <<"DownloadStream">>, fed |-> 0]
     ELSE LET r == Decode(d.body, m)
          IN  [ad |-> ad, err |-> r.err, out |-> r.model, dl |-> "nil",
               calls |-> <<"DownloadStream">>, fed |-> r.fed]
     : d \in DownloadStreamOutcomes(st, ad.container, ad.blob)}

\* LoadPolicy without the check of the names
LoadPolicyOutcomes_NoCheck(ver, st, ad, m) ==
    loadPolicyBlob(ver, st, ad, m)

\* Adapter.LoadPolicy
LoadPolicyOutcomes(ver, st, ad, m) ==
    IF checkContainerBlobArguments(ad.container, ad.blob) # "nil"
    THEN {[ad |-> ad, err |-> checkContainerBlobArguments(ad.container, ad.blob),
           out |-> m, dl |-> "none", calls |-> <<>>, fed |-> 0]}
    ELSE loadPolicyBlob(ver, st, ad, m)

\* the codes of CreateContainer that savePolicyBlob takes for success
CreateTolerated == {"nil", "ContainerAlreadyExists", "ResourceAlreadyExists"}

\* savePolicyBlob that takes only ContainerAlreadyExists for success
savePolicyBlob_OneCode(st, ad, text) ==
    UNION {
        IF c.err \notin {"nil", "ContainerAlreadyExists"}
        THEN {[st |-> c.st, err |-> c.err, calls |-> <<"CreateContainer">>,
               cc |-> c.err, ul |-> "none", text |-> text]}
        ELSE {[st |-> u.st, err |-> u.err,
               calls |-> <<"CreateContainer", "UploadStream">>,
               cc |-> c.err, ul |-> u.err, text |-> text] :
                 u \in UploadStreamOutcomes(c.st, ad.container, ad.blob, text)}
        : c \in CreateContainerOutcomes(st, ad.container)}

\* savePolicyBlob that uploads after any result of CreateContainer and
\* returns the error of CreateContainer
savePolicyBlob_UploadAnyway(st, ad, text) ==
    UNION {
        {[st |-> u.st,
          err |-> IF c.err \notin CreateTolerated THEN c.err ELSE u.err,
          calls |-> <<"CreateContainer", "UploadStream">>,
          cc |-> c.err, ul |-> u.err, text |-> text] :
            u \in UploadStreamOutcomes(c.st, ad.container, ad.blob, text)}
        : c \in CreateContainerOutcomes(st, ad.container)}

\* Adapter.savePolicyBlob
savePolicyBlob(st, ad, text) ==
    UNION {
        IF c.err \notin CreateTolerated
        THEN {[st |-> c.st, err |-> c.err, calls |-> <<"CreateContainer">>,
               cc |-> c.err, ul |-> "none", text |-> text]}
        ELSE {[st |-> u.st, err |-> u.err,
               calls |-> <<"CreateContainer", "UploadStream">>,
               cc |-> c.err, ul |-> u.err, text |-> text] :
                 u \in UploadStreamOutcomes(c.st, ad.container, ad.blob, text)}
        : c \in CreateContainerOutcomes(st, ad.container)}

\* Adapter.SavePolicy
SavePolicyOutcomes(st, ad, m) ==
    IF checkContainerBlobArguments(ad.container, ad.blob) # "nil"
    THEN {[st |-> st, err |-> checkContainerBlobArguments(ad.container, ad.blob),
           calls |-> <<>>, cc |-> "none", ul |-> "none", text |-> <<>>]}
    ELSE UNION {savePolicyBlob(st, ad, text) : text \in Encodings(m)}

\* Adapter.AddPolicy
AddPolicy(st, ad, sec, ptype, rule) ==
    [st |-> st, ad |-> ad, err |-> "not implemented", calls |-> <<>>]

\* RemovePolicy that empties the policy document
RemovePolicy_Clears(st, ad, sec, ptype, rule) ==
    LET u == CHOOSE o \in UploadStreamOutcomes(st, ad.container, ad.blob, <<>>) :
                 o.err # "ErrTransport"
    IN  [st |-> u.st, ad |-> ad, err |-> "not implemented", calls |-> <<>>]

\* Adapter.RemovePolicy
RemovePolicy(st, ad, sec, ptype, rule) ==
    [st |-> st, ad |-> ad, err |-> "not implemented", calls |-> <<>>]

\* Adapter.RemoveFilteredPolicy
RemoveFilteredPolicy(st, ad, sec, ptype, fieldIndex, fieldValues) ==
    [st |-> st, ad |-> ad, err |-> "not implemented", calls |-> <<>>]

Unimplemented == {"AddPolicy", "RemovePolicy", "RemoveFilteredPolicy"}

\* the arguments the unimplemented operations are called with
RuleArgs ==
    [ptype : {PT_p}, rule : {<<>>, <<A, B>>}, fieldIndex : {0}]

(***************************************************************************)
(* Initial states: an account in which the target container and blob may   *)
(* or may not exist, with or without a container and a blob whose names    *)
(* start with the target names; no adapter constructed.                    *)
(***************************************************************************)
InitDocs == {<<>>} \cup Encodings(M1)

\* the store with the given containers and blobs; target: the contents of
\* the target blob, none when it does not exist
InitStore(hasContainer, others, target) ==
    [containers |->
        (IF hasContainer THEN {ContainerName} ELSE {})
        \cup (IF others THEN {OtherContainer} ELSE {}),
     blobs |->
        [k \in (IF hasContainer /\ target # <<>>
                THEN {BlobKey(ContainerName, BlobName)} ELSE {})
               \cup (IF hasContainer /\ others
                     THEN {BlobKey(ContainerName, OtherBlob)} ELSE {})
         |-> IF k = BlobKey(ContainerName, BlobName) THEN target[1] ELSE <<>>]]

Init ==
    /\ version \in {"eager", "lazy"}
    /\ \E hasContainer \in BOOLEAN, others \in BOOLEAN,
          target \in {<<>>} \cup {<<d>> : d \in InitDocs} :
          /\ containers = InitStore(hasContainer, others, target).containers
          /\ blobs = InitStore(hasContainer, others, target).blobs
    /\ adapter = [a \in Adapters |-> NoAdapter]
    /\ last = NoCall
    /\ saved = {}
    /\ disturbed = {}
    /\ loaded = {}
    /\ tolerated = {}
    /\ proc = [a \in Adapters |-> NoProc]

(***************************************************************************)
(* Actions: one per exported operation, and the other actors of the store. *)
(***************************************************************************)
\* a constructor is called with arguments of argset and its result, an
\* adapter or nil, assigned to a
ConstructWith(a, argset) ==
    /\ \E args \in argset :
         \E r \in NewAdapterOutcomes(version, Store, args) :
            /\ containers' = r.st.containers
            /\ blobs' = r.st.blobs
            /\ adapter' = [adapter EXCEPT ![a] = r.ad]
            /\ last' = [NoCall EXCEPT !.op = "New", !.n = 1 - last.n, !.a = a, !.args = args,
                                      !.err = r.err, !.calls = r.calls,
                                      !.bound = IF r.calls = <<>> THEN 0
                                                ELSE contextTimeout(NewStruct(args))]
            /\ disturbed' = disturbed \ {a}
            /\ saved' = saved \ {a}
            /\ loaded' = loaded \ {a}
            /\ tolerated' = {t \in tolerated : t[1] # a}
    /\ UNCHANGED <<version, proc>>

\* a constructor is called with an account and a secret and no option
Construct(a) == ConstructWith(a, MainCtorArgs)

\* a constructor is called with any arguments
ConstructAny(a) == ConstructWith(a, CtorArgs)

\* LoadPolicy with the flag initiated held once for all adapters
LoadPolicy_SharedFlag(a) ==
    /\ adapter[a].ok
    /\ \E m \in LoadModels :
         \E r \in LoadPolicyOutcomes(version, Store, adapter[a], m) :
            /\ adapter' = [b \in Adapters |->
                              IF b = a THEN r.ad
                              ELSE IF adapter[b].ok
                              THEN [adapter[b] EXCEPT
                                        !.initiated = r.ad.initiated]
                              ELSE adapter[b]]
            /\ last' = [NoCall EXCEPT !.op = "LoadPolicy", !.n = 1 - last.n,
                                      !.a = a,
                                      !.pre = adapter[a], !.in = m,
                                      !.out = r.out, !.err = r.err,
                                      !.calls = r.calls, !.dl = r.dl,
                                      !.fed = r.fed,
                                      !.bound = IF r.calls = <<>> THEN 0
                                                ELSE contextTimeout(adapter[a]),
                                      !.first = (a \notin loaded),
                                      !.flow = IF /\ last.op = "New"
                                                  /\ last.a = a
                                                  /\ last.err = "nil"
                                                  /\ ContainerName \notin containers
                                               THEN 1 ELSE 0,
                                      !.graced = (\E t \in tolerated : t[1] = a),
                                      !.kinds = {t[2] : t \in {u \in tolerated : u[1] = a}}]
            /\ tolerated' = IF r.dl \in {"ContainerNotFound", "BlobNotFound"}
                                /\ r.err = "nil"
                             THEN tolerated \cup {<<a, r.dl>>} ELSE tolerated
    /\ loaded' = loaded \cup {a}
    /\ UNCHANGED <<version, containers, blobs, saved, disturbed, proc>>

\* Adapter.LoadPolicy is called on the adapter
LoadPolicy(a) ==
    /\ adapter[a].ok
    /\ \E m \in LoadModels :
         \E r \in LoadPolicyOutcomes(version, Store, adapter[a], m) :
            /\ adapter' = [adapter EXCEPT ![a] = r.ad]
            /\ last' = [NoCall EXCEPT !.op = "LoadPolicy", !.n = 1 - last.n,
                                      !.a = a,
                                      !.pre = adapter[a], !.in = m,
                                      !.out = r.out, !.err = r.err,
                                      !.calls = r.calls, !.dl = r.dl,
                                      !.fed = r.fed,
                                      !.bound = IF r.calls = <<>> THEN 0
                                                ELSE contextTimeout(adapter[a]),
                                      !.first = (a \notin loaded),
                                      !.flow = IF /\ last.op = "New"
                                                  /\ last.a = a
                                                  /\ last.err = "nil"
                                                  /\ ContainerName \notin containers
                                               THEN 1 ELSE 0,
                                      !.graced = (\E t \in tolerated : t[1] = a),
                                      !.kinds = {t[2] : t \in {u \in tolerated : u[1] = a}}]
            /\ tolerated' = IF r.dl \in {"ContainerNotFound", "BlobNotFound"}
                                /\ r.err = "nil"
                             THEN tolerated \cup {<<a, r.dl>>} ELSE tolerated
    /\ loaded' = loaded \cup {a}
    /\ UNCHANGED <<version, containers, blobs, saved, disturbed, proc>>

\* Adapter.SavePolicy is called on the adapter with a model of models
SavePolicyOf(a, models) ==
    /\ adapter[a].ok
    /\ \E m \in models :
         \E r \in SavePolicyOutcomes(Store, adapter[a], m) :
            /\ containers' = r.st.containers
            /\ blobs' = r.st.blobs
            /\ last' = [NoCall EXCEPT !.op = "SavePolicy", !.n = 1 - last.n,
                                      !.a = a,
                                      !.pre = adapter[a], !.in = m, !.out = m,
                                      !.err = r.err, !.calls = r.calls,
                                      !.bound = IF r.calls = <<>> THEN 0
                                                ELSE contextTimeout(adapter[a]),
                                      !.cc = r.cc, !.ul = r.ul,
                                      !.text = r.text,
                                      !.flow = IF /\ last.op = "LoadPolicy"
                                                  /\ last.a = a
                                                  /\ last.err = "nil"
                                                  /\ last.flow = 1
                                               THEN 2 ELSE 0,
                                      !.prev = (/\ last.op = "SavePolicy"
                                                /\ last.a = a
                                                /\ last.err = "nil")]
            /\ saved' = IF r.err = "nil" THEN saved \cup {a} ELSE saved
    /\ UNCHANGED <<version, adapter, disturbed, loaded, tolerated, proc>>

\* Adapter.SavePolicy is called with any model
SavePolicy(a) == SavePolicyOf(a, Models)

\* AddPolicy, RemovePolicy, RemoveFilteredPolicy, whatever their arguments
UnimplementedOp(a) ==
    /\ adapter[a].ok
    /\ \E op \in Unimplemented, x \in RuleArgs :
         LET sec == Section(x.ptype)
             r == CASE op = "AddPolicy" ->
                          AddPolicy(Store, adapter[a], sec, x.ptype, x.rule)
                    [] op = "RemovePolicy" ->
                          RemovePolicy(Store, adapter[a], sec, x.ptype, x.rule)
                    [] op = "RemoveFilteredPolicy" ->
                          RemoveFilteredPolicy(Store, adapter[a], sec, x.ptype,
                                               x.fieldIndex, x.rule)
         IN  /\ containers' = r.st.containers
             /\ blobs' = r.st.blobs
             /\ adapter' = [adapter EXCEPT ![a] = r.ad]
             /\ last' = [NoCall EXCEPT !.op = op, !.n = 1 - last.n, !.a = a,
                                       !.pre = adapter[a],
                                       !.rule = x, !.err = r.err,
                                       !.calls = r.calls]
    /\ UNCHANGED <<version, saved, disturbed, loaded, tolerated, proc>>

\* the adapters a constructor has returned
Constructed == {a \in Adapters : adapter[a].ok}

\* another actor deletes the target container, and its blobs with it
EnvDeleteContainer ==
    /\ ContainerName \in containers
    /\ containers' = containers \ {ContainerName}
    /\ blobs' = [k \in {x \in DOMAIN blobs : x[1] # ContainerName} |-> blobs[k]]
    /\ disturbed' = disturbed \cup Constructed
    /\ last' = [NoCall EXCEPT !.op = "env", !.n = last.n]
    /\ UNCHANGED <<version, adapter, saved, loaded, tolerated, proc>>

\* another actor deletes the target blob
EnvDeleteBlob ==
    /\ BlobKey(ContainerName, BlobName) \in DOMAIN blobs
    /\ blobs' = [k \in DOMAIN blobs \ {BlobKey(ContainerName, BlobName)} |-> blobs[k]]
    /\ disturbed' = disturbed \cup Constructed
    /\ last' = [NoCall EXCEPT !.op = "env", !.n = last.n]
    /\ UNCHANGED <<version, containers, adapter, saved, loaded, tolerated, proc>>

\* another writer replaces the content of the target blob
EnvPutBlob ==
    /\ ContainerName \in containers
    /\ \E doc \in ForeignDocs :
         blobs' = [k \in DOMAIN blobs \cup {BlobKey(ContainerName, BlobName)} |->
                      IF k = BlobKey(ContainerName, BlobName) THEN doc ELSE blobs[k]]
    /\ last' = [NoCall EXCEPT !.op = "env", !.n = last.n]
    /\ UNCHANGED <<version, containers, adapter, saved, disturbed, loaded,
                   tolerated, proc>>

\* a call on the adapter, or a step of another actor of the store
Next ==
    \/ \E a \in MainAdapters : Construct(a)
    \/ \E a \in MainAdapters : LoadPolicy(a)
    \/ \E a \in MainAdapters : SavePolicy(a)
    \/ \E a \in MainAdapters : UnimplementedOp(a)
    \/ EnvDeleteContainer
    \/ EnvDeleteBlob
    \/ EnvPutBlob

\* every behaviour of the adapter and the store
Spec == Init /\ [][Next]_vars

(***************************************************************************)
(* Adapters built as struct literals, as code inside the package (the      *)
(* tests) builds them: no constructor runs, so no name is checked, no      *)
(* timeout is set and nothing is created.                                  *)
(***************************************************************************)
\* the names given in the literal
StructFields == [container : {<<>>, ContainerName}, blob : {<<>>, BlobName}]

\* a := &Adapter{c: client, container: ..., blob: ...}
StructLiteral(a) ==
    /\ \E f \in StructFields :
         adapter' = [adapter EXCEPT ![a] =
                        [ok |-> TRUE, container |-> f.container, blob |-> f.blob,
                         timeout |-> 0, initiated |-> FALSE]]
    /\ last' = [NoCall EXCEPT !.op = "Literal", !.n = 1 - last.n, !.a = a]
    /\ saved' = saved \ {a}
    /\ disturbed' = disturbed \ {a}
    /\ loaded' = loaded \ {a}
    /\ tolerated' = {t \in tolerated : t[1] # a}
    /\ UNCHANGED <<version, containers, blobs, proc>>

\* the calls on an adapter built as a struct literal
NextStruct ==
    \/ \E a \in MainAdapters : StructLiteral(a)
    \/ \E a \in MainAdapters : LoadPolicy(a)
    \/ \E a \in MainAdapters : SavePolicy(a)
    \/ \E a \in MainAdapters : UnimplementedOp(a)

\* every behaviour of adapters built as struct literals
SpecStruct == Init /\ [][NextStruct]_vars

(***************************************************************************)
(* The constructors called with any arguments: names, account and secret   *)
(* given or empty, with and without options.                               *)
(***************************************************************************)
\* the calls on an adapter constructed with any arguments
NextCtor ==
    \/ \E a \in MainAdapters : ConstructAny(a)
    \/ \E a \in MainAdapters : LoadPolicy(a)
    \/ \E a \in MainAdapters : SavePolicy(a)
    \/ \E a \in MainAdapters : UnimplementedOp(a)

\* the initial states with no other container and no other blob in the
\* store than the target, which is absent or empty
InitCtor ==
    /\ Init
    /\ OtherContainer \notin containers
    /\ \A k \in DOMAIN blobs : k = TargetKey /\ blobs[k] = <<>>

\* every behaviour of an adapter constructed with any arguments
SpecCtor == InitCtor /\ [][NextCtor]_vars

(***************************************************************************)
(* Two adapters of the lazy version on the same target, as two processes   *)
(* or two enforcers hold them: the calls do not overlap, and another actor *)
(* can delete the container or the blob between them.                      *)
(***************************************************************************)
\* the arguments of the two constructions: the same target
TwoArgs == [ctor |-> "NewAdapter", account |-> <<"s">>, secret |-> <<"k">>,
            container |-> ContainerName, blob |-> BlobName, options |-> <<>>]

\* a call on one of the two adapters, or a deletion by another actor
NextTwo ==
    \/ \E a \in Adapters : ConstructWith(a, {TwoArgs})
    \/ \E a \in Adapters : LoadPolicy(a)
    \/ \E a \in Adapters : SavePolicyOf(a, {M1})
    \/ EnvDeleteContainer
    \/ EnvDeleteBlob

\* the lazy version, the target absent or empty and nothing else in the
\* store
InitTwo == InitCtor /\ version = "lazy"

\* every behaviour of two lazy adapters on the same target
SpecTwo == InitTwo /\ [][NextTwo]_vars

(***************************************************************************)
(* Overlapping calls.  Two adapters on the same target, each call a         *)
(* sequence of steps, one step per call on the store, the steps of the two *)
(* calls interleaved.  A listing is one step: nothing is deleted here, so  *)
(* a name found on a page stays in the store, and a name on no page can    *)
(* have been created at any moment after that page.                        *)
(***************************************************************************)
\* the arguments of the constructions
ConcArgs == [ctor |-> "NewAdapter", account |-> <<"s">>, secret |-> <<"k">>,
             container |-> ContainerName, blob |-> BlobName, options |-> <<>>]

\* the models of the overlapping SavePolicy calls
ConcModels == {M1, M2}

\* the call of adapter b has started and not returned
Busy(b) == proc[b].pc \notin {"idle", "done"}

\* adapter a starts a call, which makes the store call pc next or, with pc
\* "done", returns err at once
Begin(a, op, m, text, pc, err) ==
    proc' = [b \in Adapters |->
                IF b = a
                THEN [pc |-> pc, op |-> op, in |-> m, text |-> text,
                      err |-> err, upl |-> FALSE,
                      ovl |-> \E c \in Adapters \ {a} : Busy(c)]
                ELSE IF Busy(b) THEN [proc[b] EXCEPT !.ovl = TRUE]
                ELSE proc[b]]

\* the call of adapter a returns err
Finish(a, err) == proc' = [proc EXCEPT ![a].pc = "done", ![a].err = err]

\* the call of adapter a returns the result u of its UploadStream
Uploaded(a, u) ==
    proc' = [b \in Adapters |->
                IF b = a
                THEN [proc[a] EXCEPT !.pc = "done", !.err = u.err,
                                     !.upl = u.applied]
                ELSE IF u.applied THEN [proc[b] EXCEPT !.upl = FALSE]
                ELSE proc[b]]

\* the constructor up to initAdapter: the struct is built and the client
\* created, which can fail; the lazy constructor returns here
CtorBegin(a) ==
    /\ ~adapter[a].ok
    /\ proc[a].pc = "idle"
    /\ \/ /\ Begin(a, "New", EmptyModel, <<>>, "done", "ErrClient")
          /\ UNCHANGED adapter
       \/ /\ version = "eager"
          /\ Begin(a, "New", EmptyModel, <<>>, "ListContainers", "nil")
          /\ UNCHANGED adapter
       \/ /\ version = "lazy"
          /\ Begin(a, "New", EmptyModel, <<>>, "done", "nil")
          /\ adapter' = [adapter EXCEPT ![a] = NewStruct(ConcArgs)]
    /\ UNCHANGED <<version, containers, blobs, last, saved, disturbed,
                   loaded, tolerated>>

\* createContainerIfNotExist, the listing: the pages are requested until the
\* name is found
CtorListContainers(a) ==
    /\ proc[a].op = "New"
    /\ proc[a].pc = "ListContainers"
    /\ \E l \in ListContainersOutcomes(Store, ConcArgs.container) :
         LET r == PagerLoop(l, 1, ConcArgs.container)
         IN  IF r.err # "nil" THEN Finish(a, r.err)
             ELSE proc' = [proc EXCEPT ![a].pc = IF r.found THEN "ListBlobs"
                                                 ELSE "CreateContainer"]
    /\ UNCHANGED <<version, containers, blobs, adapter, last, saved,
                   disturbed, loaded, tolerated>>

\* createContainerIfNotExist, the creation: any error is returned
CtorCreateContainer(a) ==
    /\ proc[a].op = "New"
    /\ proc[a].pc = "CreateContainer"
    /\ \E o \in CreateContainerOutcomes(Store, ConcArgs.container) :
         /\ containers' = o.st.containers
         /\ IF o.err # "nil" THEN Finish(a, o.err)
            ELSE proc' = [proc EXCEPT ![a].pc = "ListBlobs"]
    /\ UNCHANGED <<version, blobs, adapter, last, saved, disturbed, loaded,
                   tolerated>>

\* createBlobIfNotExist, the listing; with the blob found the constructor
\* returns the adapter
CtorListBlobs(a) ==
    /\ proc[a].op = "New"
    /\ proc[a].pc = "ListBlobs"
    /\ \E l \in ListBlobsOutcomes(Store, ConcArgs.container, ConcArgs.blob) :
         LET r == PagerLoop(l, 1, ConcArgs.blob)
         IN  IF r.err # "nil"
             THEN Finish(a, r.err) /\ UNCHANGED adapter
             ELSE IF r.found
             THEN /\ Finish(a, "nil")
                  /\ adapter' = [adapter EXCEPT ![a] = NewStruct(ConcArgs)]
             ELSE /\ proc' = [proc EXCEPT ![a].pc = "UploadStream"]
                  /\ UNCHANGED adapter
    /\ UNCHANGED <<version, containers, blobs, last, saved, disturbed,
                   loaded, tolerated>>

\* createBlobIfNotExist, the upload of the empty blob; the constructor
\* returns
CtorUploadStream(a) ==
    /\ proc[a].op = "New"
    /\ proc[a].pc = "UploadStream"
    /\ \E u \in UploadStreamOutcomes(Store, ConcArgs.container, ConcArgs.blob,
                                     <<>>) :
         /\ blobs' = u.st.blobs
         /\ Uploaded(a, u)
         /\ adapter' = IF u.err = "nil"
                       THEN [adapter EXCEPT ![a] = NewStruct(ConcArgs)]
                       ELSE adapter
    /\ UNCHANGED <<version, containers, last, saved, disturbed, loaded,
                   tolerated>>

\* SavePolicy up to savePolicyBlob: the names pass the check, the text is
\* written
SaveBegin(a) ==
    /\ adapter[a].ok
    /\ proc[a].pc = "idle"
    /\ \E m \in ConcModels : \E text \in Encodings(m) :
         Begin(a, "SavePolicy", m, text, "CreateContainer", "nil")
    /\ UNCHANGED <<version, containers, blobs, adapter, last, saved,
                   disturbed, loaded, tolerated>>

\* savePolicyBlob, the creation of the container: the two already-exists
\* codes are taken for success
SaveCreateContainer(a) ==
    /\ proc[a].op = "SavePolicy"
    /\ proc[a].pc = "CreateContainer"
    /\ \E o \in CreateContainerOutcomes(Store, adapter[a].container) :
         /\ containers' = o.st.containers
         /\ IF o.err \notin CreateTolerated THEN Finish(a, o.err)
            ELSE proc' = [proc EXCEPT ![a].pc = "UploadStream"]
    /\ UNCHANGED <<version, blobs, adapter, last, saved, disturbed, loaded,
                   tolerated>>

\* savePolicyBlob, the upload that appends the text to the blob
SaveUploadStream_Append(a) ==
    /\ proc[a].op = "SavePolicy"
    /\ proc[a].pc = "UploadStream"
    /\ \E u \in UploadStreamOutcomes(Store, adapter[a].container,
                 adapter[a].blob,
                 (IF TargetKey \in DOMAIN blobs THEN blobs[TargetKey] ELSE <<>>)
                     \o proc[a].text) :
         /\ blobs' = u.st.blobs
         /\ Uploaded(a, u)
    /\ UNCHANGED <<version, containers, adapter, last, saved, disturbed,
                   loaded, tolerated>>

\* savePolicyBlob, the upload; SavePolicy returns its result
SaveUploadStream(a) ==
    /\ proc[a].op = "SavePolicy"
    /\ proc[a].pc = "UploadStream"
    /\ \E u \in UploadStreamOutcomes(Store, adapter[a].container,
                                     adapter[a].blob, proc[a].text) :
         /\ blobs' = u.st.blobs
         /\ Uploaded(a, u)
    /\ UNCHANGED <<version, containers, adapter, last, saved, disturbed,
                   loaded, tolerated>>

\* the caller takes the result; the adapter can be called again
Return(a) ==
    /\ proc[a].pc = "done"
    /\ proc' = [proc EXCEPT ![a] = [NoProc EXCEPT !.upl = proc[a].upl]]
    /\ UNCHANGED <<version, containers, blobs, adapter, last, saved,
                   disturbed, loaded, tolerated>>

\* a step of one of the overlapping calls
NextConc ==
    \/ \E a \in Adapters : CtorBegin(a)
    \/ \E a \in Adapters : CtorListContainers(a)
    \/ \E a \in Adapters : CtorCreateContainer(a)
    \/ \E a \in Adapters : CtorListBlobs(a)
    \/ \E a \in Adapters : CtorUploadStream(a)
    \/ \E a \in Adapters : SaveBegin(a)
    \/ \E a \in Adapters : SaveCreateContainer(a)
    \/ \E a \in Adapters : SaveUploadStream(a)
    \/ \E a \in Adapters : Return(a)

\* every interleaving of the calls of two adapters
SpecConc == Init /\ [][NextConc]_vars

(***************************************************************************)
(* Properties.                                                             *)
(***************************************************************************)
\* the store's not-found codes, and the errors that wrap them
NotFoundCodes == {"ContainerNotFound", "BlobNotFound"}

NotFoundErrors == {"ErrContainerDoesNotExist", "ErrBlobDoesNotExist"}

\* the error that wraps a not-found code
Wrapped(code) ==
    IF code = "ContainerNotFound" THEN "ErrContainerDoesNotExist"
    ELSE "ErrBlobDoesNotExist"

\* errors that come from the transport or the creation of the client, not
\* from the state of the store
Faults == {"ErrTransport", "ErrClient"}

\* how often x occurs in the sequence s
Count(s, x) == Cardinality({i \in 1..Len(s) : s[i] = x})

\* the same rules per rule type, up to their order
SameRules(m1, m2) ==
    /\ DOMAIN m1 = DOMAIN m2
    /\ \A pt \in DOMAIN m1 :
         /\ Len(m1[pt]) = Len(m2[pt])
         /\ \A r \in Range(m1[pt]) \cup Range(m2[pt]) :
              Count(m1[pt], r) = Count(m2[pt], r)

\* a step that makes a call on an adapter
Called == last'.n # last.n

\* C1: in either version, once a SavePolicy on an adapter has returned nil,
\* every later LoadPolicy on it whose download reports container-not-found
\* or blob-not-found returns an error.
C1_NotFoundAfterSaveIsError ==
    (/\ last.op = "LoadPolicy"
     /\ last.a \in saved
     /\ last.dl \in NotFoundCodes)
    => last.err # "nil"

\* a LoadPolicy that met a not-found code with the initiated flag false
C2_Tolerated(l) ==
    /\ l.op = "LoadPolicy"
    /\ l.dl \in NotFoundCodes
    /\ ~l.pre.initiated

\* C2: lazy version: a LoadPolicy on an adapter whose initiated flag is false
\* and whose download reports a not-found code returns nil and leaves the
\* model as it was; the LoadPolicy that follows it on the same adapter and
\* meets a not-found code again returns the error that wraps that code.
C2_TolerantFirstCall ==
    [][(version = "lazy" /\ Called /\ last'.op = "LoadPolicy"
           /\ last'.dl \in NotFoundCodes)
        => /\ (~last'.pre.initiated
                 => last'.err = "nil" /\ last'.out = last'.in)
           /\ (C2_Tolerated(last) /\ last'.a = last.a
                 => last'.err = Wrapped(last'.dl))]_vars

\* a second LoadPolicy has met the missing container and returned the error
C2_Witness ==
    /\ version = "lazy"
    /\ last.op = "LoadPolicy"
    /\ last.pre.initiated
    /\ last.dl = "ContainerNotFound"
    /\ last.err = "ErrContainerDoesNotExist"
    /\ last.out = EmptyModel

\* the names a constructor was given name the target
TargetArgs(args) == args.container = ContainerName /\ args.blob = BlobName

\* C3: eager version: when a constructor returns an adapter and no error,
\* the target container and the target blob exist in the store, and a blob
\* that did not exist before the call exists with empty content; the adapter
\* is handed out, and so can be loaded from, only after that.
C3_EagerConstructionCreates ==
    [][(version = "eager" /\ Called /\ last'.op = "New" /\ last'.err = "nil")
        => /\ adapter'[last'.a].ok
           /\ last'.args.container \in containers'
           /\ BlobKey(last'.args.container, last'.args.blob) \in DOMAIN blobs'
           /\ (TargetKey \notin DOMAIN blobs => blobs'[TargetKey] = <<>>)
           /\ (TargetKey \in DOMAIN blobs => blobs'[TargetKey] = blobs[TargetKey])]_vars

\* a constructor has created both the container and the empty blob
C3_Witness ==
    /\ version = "eager"
    /\ last.op = "New"
    /\ last.err = "nil"
    /\ adapter[last.a].ok
    /\ "CreateContainer" \in Range(last.calls)
    /\ "UploadStream" \in Range(last.calls)
    /\ blobs[TargetKey] = <<>>

\* C4: eager version: on an adapter a constructor returned, and while no
\* other actor has deleted the container or the blob since, no LoadPolicy
\* meets or returns a not-found condition, no SavePolicy finds the container
\* missing, and the LoadPolicy that follows a construction which created the
\* blob returns nil and adds no rule whenever its download succeeds.
C4_EagerTargetPresent ==
    [][(version = "eager" /\ Called /\ last'.op \in {"LoadPolicy", "SavePolicy"}
           /\ last'.a \notin disturbed')
        => /\ last'.dl \notin NotFoundCodes
           /\ last'.err \notin NotFoundErrors \cup NotFoundCodes
           /\ last'.cc # "nil"
           /\ ((/\ last.op = "New" /\ last.err = "nil"
                /\ "UploadStream" \in Range(last.calls)
                /\ last'.op = "LoadPolicy" /\ last'.dl = "nil")
                  => (last'.err = "nil" /\ last'.out = last'.in))]_vars

\* a LoadPolicy on an undisturbed adapter has read the empty blob into an
\* empty model
C4_Witness ==
    /\ version = "eager"
    /\ last.op = "LoadPolicy"
    /\ last.a \notin disturbed
    /\ last.dl = "nil"
    /\ last.err = "nil"
    /\ blobs[TargetKey] = <<>>
    /\ last.in = EmptyModel
    /\ last.out = EmptyModel

\* C5: eager version: a construction on the target that follows a
\* construction that returned nil returns no error but a fault of the
\* transport, issues no CreateContainer and no UploadStream, and leaves the
\* containers and the blobs of the store, content included, as they were.
C5_InitializerIdempotent ==
    [][(version = "eager" /\ Called
           /\ last.op = "New" /\ last.err = "nil"
           /\ last'.op = "New" /\ TargetArgs(last'.args))
        => /\ last'.err \in {"nil"} \cup Faults
           /\ "CreateContainer" \notin Range(last'.calls)
           /\ "UploadStream" \notin Range(last'.calls)
           /\ containers' = containers
           /\ blobs' = blobs]_vars

\* a construction has found both the container and the blob in place
C5_Witness ==
    /\ version = "eager"
    /\ last.op = "New"
    /\ last.err = "nil"
    /\ last.calls = <<"ListContainers", "ListBlobs">>
    /\ blobs[TargetKey] # <<>>

\* C6: a SavePolicy of M1 that returned nil, then a SavePolicy of M2 that
\* returned nil, then a LoadPolicy into an empty model whose download
\* succeeds: the load returns nil and the model holds exactly the rules of M2.
C6_SaveOverwrites ==
    [][(/\ Called
        /\ last.op = "SavePolicy" /\ last.err = "nil" /\ last.prev
        /\ last'.op = "LoadPolicy" /\ last'.a = last.a
        /\ last'.in = EmptyModel /\ last'.dl = "nil")
        => (last'.err = "nil" /\ SameRules(last'.out, last.in))]_vars

\* C7: decoding the text SavePolicy encodes from a model into an empty model
\* returns no error and yields the rules of that model, up to their order.
C7_RoundTrip ==
    (last.op = "SavePolicy" /\ last.calls # <<>>)
    => LET d == Decode(last.text, EmptyModel)
       IN  d.err = "nil" /\ SameRules(d.model, last.in)

\* the lines of a document: the texts between its newlines
DocLines(text) == IF text = <<>> THEN <<>> ELSE Split(text, NL)

\* the tag and the fields of a rule joined by ", "
RuleLine(ptype, rule) == Join(<<ptype>> \o rule, <<COMMA, SP>>)

\* the line starts with the tag and a comma
HasTag(line, ptype) == HasPrefix(line, Append(ptype, COMMA))

LinesOf(lines, ptype) ==
    LET Tagged(line) == HasTag(line, ptype)
    IN  SelectSeq(lines, Tagged)

RECURSIVE SumLen(_, _)
SumLen(m, pts) ==
    IF pts = {} THEN 0
    ELSE LET pt == CHOOSE x \in pts : TRUE
         IN  Len(m[pt]) + SumLen(m, pts \ {pt})

\* C8: the text SavePolicy uploads has one line per rule of the model; the
\* lines of a rule type are the tag and the fields of its rules joined by
\* ", ", in the order of the model; no line of section g comes before a line
\* of section p; there is no empty line and no newline at the end.
C8_DocumentFormat ==
    (last.op = "SavePolicy" /\ last.calls # <<>>)
    => LET lines == DocLines(last.text)
           m == last.in
       IN  /\ Len(lines) = SumLen(m, DOMAIN m)
           /\ \A pt \in DOMAIN m :
                LinesOf(lines, pt) =
                    [i \in 1..Len(m[pt]) |-> RuleLine(pt, m[pt][i])]
           /\ \A i, j \in 1..Len(lines) :
                i < j => ~(lines[i][1] = "g" /\ lines[j][1] = "p")
           /\ \A i \in 1..Len(lines) : lines[i] # <<>>
           /\ (last.text # <<>> => last.text[Len(last.text)] # NL)

\* C9: SavePolicy issues CreateContainer first and UploadStream only after
\* it; it uploads when CreateContainer reports that the container exists
\* already; any other error of CreateContainer is returned and nothing is
\* uploaded.
C9_SaveCreatesThenUploads ==
    last.op = "SavePolicy"
    => /\ (checkContainerBlobArguments(last.pre.container, last.pre.blob) = "nil"
             => last.calls # <<>> /\ last.calls[1] = "CreateContainer")
       /\ ("UploadStream" \in Range(last.calls)
             => last.calls = <<"CreateContainer", "UploadStream">>)
       /\ (last.cc \in {"nil", "ContainerAlreadyExists", "ResourceAlreadyExists"}
             => last.calls = <<"CreateContainer", "UploadStream">>)
       /\ (last.cc \in {"ErrTransport"}
             => last.err = last.cc /\ last.calls = <<"CreateContainer">>)

\* a SavePolicy has uploaded after CreateContainer reported the generic
\* already-exists code
C9_Witness ==
    /\ last.op = "SavePolicy"
    /\ last.cc = "ResourceAlreadyExists"
    /\ last.calls = <<"CreateContainer", "UploadStream">>
    /\ last.err = "nil"
    /\ blobs[TargetKey] = last.text

\* C10: AddPolicy, RemovePolicy and RemoveFilteredPolicy return the error
\* "not implemented" whatever their arguments and the state of the adapter,
\* issue no store call and leave the store and the adapters as they were.
C10_UnimplementedNoEffect ==
    [][(Called /\ last'.op \in Unimplemented)
        => /\ last'.err = "not implemented"
           /\ last'.calls = <<>>
           /\ containers' = containers
           /\ blobs' = blobs
           /\ adapter' = adapter]_vars

\* RemoveFilteredPolicy was called with a rule on an adapter that had
\* tolerated a not-found, the blob holding a document
C10_Witness ==
    /\ last.op = "RemoveFilteredPolicy"
    /\ last.rule.rule # <<>>
    /\ last.err = "not implemented"
    /\ adapter[last.a].initiated
    /\ TargetKey \in DOMAIN blobs
    /\ blobs[TargetKey] # <<>>

\* C11: a constructor whose other arguments are valid, called with an empty
\* container name, returns ErrInvalidContainer, and called with a container
\* name and an empty blob name returns ErrInvalidBlob; it returns no adapter
\* and has issued no store call; in both versions.
C11_EmptyNamesRejected ==
    (/\ last.op = "New"
     /\ checkConstructorArguments(last.args) = "nil"
     /\ (last.args.container = <<>> \/ last.args.blob = <<>>))
    => (/\ last.err = (IF last.args.container = <<>>
                       THEN "ErrInvalidContainer" ELSE "ErrInvalidBlob")
        /\ adapter[last.a] = NoAdapter
        /\ last.calls = <<>>)

\* an eager constructor was called with a container name and an empty blob
\* name while the container was absent
C11_Witness ==
    /\ version = "eager"
    /\ last.op = "New"
    /\ ContainerName \notin containers
    /\ last.args.container # <<>>
    /\ last.args.blob = <<>>
    /\ last.err = "ErrInvalidBlob"

\* C12: a LoadPolicy or a SavePolicy on an adapter whose container name or
\* blob name is empty returns ErrInvalidContainer (container name empty) or
\* ErrInvalidBlob, issues no store call, and leaves the model, the store and
\* the adapter as they were.
C12_EmptyNamesFailFast ==
    [][(/\ Called
        /\ last'.op \in {"LoadPolicy", "SavePolicy"}
        /\ (last'.pre.container = <<>> \/ last'.pre.blob = <<>>))
       => (/\ last'.err = (IF last'.pre.container = <<>>
                           THEN "ErrInvalidContainer" ELSE "ErrInvalidBlob")
           /\ last'.calls = <<>>
           /\ last'.out = last'.in
           /\ UNCHANGED <<containers, blobs, adapter>>)]_vars

\* a LoadPolicy into a model that holds rules was made on an adapter whose
\* blob name is empty, the container being in the store
C12_Witness ==
    /\ last.op = "LoadPolicy"
    /\ last.pre.container = ContainerName
    /\ last.pre.blob = <<>>
    /\ last.in = M1
    /\ last.err = "ErrInvalidBlob"
    /\ ContainerName \in containers

\* C13: eager version: every LoadPolicy whose download reports
\* container-not-found returns the error that wraps ErrContainerDoesNotExist,
\* and every one whose download reports blob-not-found the error that wraps
\* ErrBlobDoesNotExist, the first LoadPolicy on the adapter included.
C13_EagerNotFoundWrapped ==
    (version = "eager" /\ last.op = "LoadPolicy")
    => (/\ (last.dl = "ContainerNotFound"
               => last.err = "ErrContainerDoesNotExist")
        /\ (last.dl = "BlobNotFound" => last.err = "ErrBlobDoesNotExist"))

\* the first LoadPolicy on an eager adapter has met the missing blob
C13_Witness ==
    /\ version = "eager"
    /\ last.op = "LoadPolicy"
    /\ last.first
    /\ last.dl = "BlobNotFound"
    /\ last.err = "ErrBlobDoesNotExist"

\* C16: lazy version: on one adapter at most one LoadPolicy whose download
\* reported a not-found code returns nil: a not-found LoadPolicy made after
\* one that returned nil returns an error.
C16_AtMostOneGrace ==
    (/\ version = "lazy"
     /\ last.op = "LoadPolicy"
     /\ last.dl \in NotFoundCodes
     /\ last.graced)
    => last.err # "nil"

\* a not-found LoadPolicy has returned an error on an adapter on which an
\* earlier one, with other calls in between, had returned nil
C16_Witness ==
    /\ version = "lazy"
    /\ last.op = "LoadPolicy"
    /\ last.dl = "BlobNotFound"
    /\ last.graced
    /\ last.a \in saved
    /\ last.err = "ErrBlobDoesNotExist"

\* C17: lazy version: a LoadPolicy that is not the first LoadPolicy called
\* on its adapter and whose download reports a not-found code returns an
\* error: only the first LoadPolicy on an adapter can return nil for a
\* not-found.
C17_OnlyFirstLoadTolerated ==
    (/\ version = "lazy"
     /\ last.op = "LoadPolicy"
     /\ last.dl \in NotFoundCodes
     /\ ~last.first)
    => last.err # "nil"

\* C18: lazy version: after a LoadPolicy or a SavePolicy has returned nil the
\* container of the adapter is in the store.
C18_ContainerExistsAfterUse ==
    (/\ version = "lazy"
     /\ last.op \in {"LoadPolicy", "SavePolicy"}
     /\ last.err = "nil")
    => last.pre.container \in containers

\* C19: two SavePolicy calls made one after the other on an adapter with
\* the same model hand the same text to UploadStream.
C19_EncodingDeterministic ==
    [][(/\ Called
        /\ last.op = "SavePolicy" /\ last.ul # "none"
        /\ last'.op = "SavePolicy" /\ last'.ul # "none"
        /\ last'.a = last.a
        /\ last'.in = last.in)
       => last'.text = last.text]_vars

\* C20: a LoadPolicy that passes the check of the names issues exactly one
\* DownloadStream call; when the download fails with an error that is
\* neither not-found code, LoadPolicy returns that error and leaves the
\* model as it was; when UploadStream fails, SavePolicy returns its error
\* and has issued exactly one UploadStream call.
C20_ErrorsPassedThrough ==
    /\ (/\ last.op = "LoadPolicy"
         /\ checkContainerBlobArguments(last.pre.container, last.pre.blob) = "nil")
        => last.calls = <<"DownloadStream">>
    /\ (/\ last.op = "LoadPolicy"
         /\ last.dl \notin NotFoundCodes \cup {"nil", "none"})
        => (last.err = last.dl /\ last.out = last.in)
    /\ (/\ last.op = "SavePolicy"
         /\ last.ul \notin {"nil", "none"})
        => (last.err = last.ul /\ Count(last.calls, "UploadStream") = 1)

\* a LoadPolicy into a model that holds rules has met an error of the
\* transport while the blob was in the store
C20_Witness ==
    /\ last.op = "LoadPolicy"
    /\ last.dl = "ErrTransport"
    /\ last.err = "ErrTransport"
    /\ last.in = M1
    /\ TargetKey \in DOMAIN blobs

\* C14: eager version: a construction that overlaps another construction on
\* the same target returns nil unless one of its store calls failed in the
\* transport: the already-exists error of a creation that lost the race is
\* not returned to the caller.
C14_ConcurrentConstructionsSucceed ==
    \A a \in Adapters :
        (/\ version = "eager"
         /\ proc[a].pc = "done"
         /\ proc[a].op = "New"
         /\ proc[a].ovl)
        => proc[a].err \in {"nil"} \cup Faults

\* C15: when the SavePolicy calls of two adapters on the same target
\* overlap, neither returns an error other than a failure of the transport,
\* and when both return nil the blob holds the text of the call whose
\* UploadStream was executed last, which is an encoding of that call's
\* model.
C15_LastUploadWins ==
    \A a, b \in Adapters :
        (/\ a # b
         /\ proc[a].pc = "done" /\ proc[a].op = "SavePolicy" /\ proc[a].ovl
         /\ proc[b].pc = "done" /\ proc[b].op = "SavePolicy" /\ proc[b].ovl)
        => (/\ proc[a].err \in {"nil"} \cup Faults
            /\ proc[a].text \in Encodings(proc[a].in)
            /\ (proc[a].upl => blobs[TargetKey] = proc[a].text)
            /\ (proc[a].err = "nil" /\ proc[b].err = "nil"
                   => proc[a].upl \/ proc[b].upl))

\* two overlapping SavePolicy calls with different models have both
\* returned nil
C15_Witness ==
    /\ \A a \in Adapters :
          /\ proc[a].pc = "done" /\ proc[a].op = "SavePolicy" /\ proc[a].ovl
          /\ proc[a].err = "nil"
    /\ proc["a1"].in = M1
    /\ proc["a2"].in = M2
    /\ proc["a1"].upl
    /\ blobs[TargetKey] = proc["a1"].text

\* the content of the target blob in bl, none when the blob does not exist
TargetContent(bl) ==
    IF TargetKey \in DOMAIN bl THEN <<bl[TargetKey]>> ELSE <<>>

\* C21 as stated: a SavePolicy that returns an error leaves the content of
\* the target blob as it was before the call, and a SavePolicy whose upload
\* succeeded returns nil.
C21_FailedSaveLeavesBlob ==
    [][(Called /\ last'.op = "SavePolicy")
       => (/\ (last'.err # "nil"
                 => TargetContent(blobs') = TargetContent(blobs))
           /\ (last'.ul = "nil" => last'.err = "nil"))]_vars

\* C21 amended: a SavePolicy that returns the error of the name check or
\* an error of CreateContainer other than the two already-exists codes
\* leaves the content of the target blob as it was; a SavePolicy whose
\* upload succeeded returns nil and the blob holds the new document; after
\* a SavePolicy whose upload failed the blob holds its content of before or
\* the new document.
C21_SaveBeforeUploadLeavesBlob ==
    [][(Called /\ last'.op = "SavePolicy")
       => (/\ (\/ last'.err \in {"ErrInvalidContainer", "ErrInvalidBlob"}
               \/ last'.cc \notin CreateTolerated \cup {"none"})
              => TargetContent(blobs') = TargetContent(blobs)
           /\ (last'.ul = "nil"
                 => (/\ last'.err = "nil"
                     /\ TargetContent(blobs') = <<last'.text>>))
           /\ (last'.ul \notin {"nil", "none"}
                 => (/\ last'.err = last'.ul
                     /\ TargetContent(blobs') \in
                           {TargetContent(blobs), <<last'.text>>})))]_vars

\* a SavePolicy of a model with rules has returned the error of
\* CreateContainer while the blob held a document
C21_Witness ==
    /\ last.op = "SavePolicy"
    /\ last.in = M2
    /\ last.cc = "ErrTransport"
    /\ last.err = "ErrTransport"
    /\ TargetKey \in DOMAIN blobs
    /\ blobs[TargetKey] \in Encodings(M1)

ExpectedTimeout(options) ==
    LET IsTimeout(o) == o.kind = "WithTimeout"
        ts == SelectSeq(options, IsTimeout)
    IN  IF ts = <<>> THEN 10 ELSE ts[Len(ts)].d

\* C23: an adapter constructed without WithTimeout has the timeout 10, one
\* constructed with WithTimeout(d) the timeout d, wherever that option
\* stands among the options; the store calls of the initializer, of every
\* LoadPolicy and of every SavePolicy are bound by this timeout, and no
\* call on the adapter changes it.
C23_TimeoutFixed ==
    [][Called
       => (/\ (last'.op = "New" /\ last'.err = "nil"
                 => adapter'[last'.a].timeout
                       = ExpectedTimeout(last'.args.options))
           /\ (last'.op = "New" /\ last'.calls # <<>>
                 => last'.bound = ExpectedTimeout(last'.args.options))
           /\ (last'.op \in {"LoadPolicy", "SavePolicy"} /\ last'.calls # <<>>
                 => last'.bound = adapter[last'.a].timeout)
           /\ (last'.op # "New"
                 => adapter'[last'.a].timeout = adapter[last'.a].timeout))]_vars

\* an eager adapter was constructed with WithTimeout(5) followed by another
\* option, its initializer having created the container and the blob
C23_Witness ==
    /\ version = "eager"
    /\ last.op = "New"
    /\ last.args.options = <<WithTimeout(5), WithClient>>
    /\ last.err = "nil"
    /\ Count(last.calls, "UploadStream") = 1
    /\ last.bound = 5
    /\ adapter[last.a].timeout = 5

(***************************************************************************)
(* C24.  Lazy version: a call on an adapter leaves its container, its blob *)
(* and its timeout as the constructor set them, and a call that is not a   *)
(* constructor leaves the fields of every adapter but initiated as they    *)
(* were.  initiated changes only from FALSE to TRUE, and only in a         *)
(* LoadPolicy on that adapter whose DownloadStream reported                *)
(* ContainerNotFound or BlobNotFound: a LoadPolicy that returns a document *)
(* or another error, a SavePolicy and the unimplemented operations leave   *)
(* it as it was.                                                           *)
(***************************************************************************)
C24_LazyFieldsFixed ==
    [][version = "lazy" =>
         \A a \in Adapters :
            (adapter[a].ok /\ ~(last'.op = "New" /\ last'.a = a /\ Called))
            => /\ adapter'[a].ok
               /\ adapter'[a].container = adapter[a].container
               /\ adapter'[a].blob = adapter[a].blob
               /\ adapter'[a].timeout = adapter[a].timeout
               /\ (adapter'[a].initiated # adapter[a].initiated
                   => /\ ~adapter[a].initiated
                      /\ adapter'[a].initiated
                      /\ Called
                      /\ last'.op = "LoadPolicy"
                      /\ last'.a = a
                      /\ last'.dl \in NotFoundCodes)]_vars

\* a LoadPolicy of the lazy adapter whose download reported BlobNotFound has
\* set initiated, after a LoadPolicy that failed had left it false
C24_Witness ==
    /\ version = "lazy"
    /\ last.op = "LoadPolicy"
    /\ ~last.first
    /\ last.dl = "BlobNotFound"
    /\ ~last.pre.initiated
    /\ adapter[last.a].initiated
    /\ adapter[last.a].container = last.pre.container
    /\ adapter[last.a].timeout = last.pre.timeout

\* C25: eager version: a construction does not replace a document another
\* adapter has stored: when a construction and a SavePolicy of a model that
\* holds rules, by another adapter on the same target, overlap and both
\* return nil, the blob holds an encoding of the model saved.
C25_ConstructionKeepsDocument ==
    \A a, b \in Adapters :
        (/\ version = "eager"
         /\ a # b
         /\ proc[a].pc = "done" /\ proc[a].op = "New" /\ proc[a].ovl
         /\ proc[a].err = "nil"
         /\ proc[b].pc = "done" /\ proc[b].op = "SavePolicy" /\ proc[b].ovl
         /\ proc[b].err = "nil"
         /\ proc[b].in # EmptyModel)
        => (/\ TargetKey \in DOMAIN blobs
            /\ blobs[TargetKey] \in Encodings(proc[b].in))

\* C26: lazy version, the first use of a target whose container does not
\* exist: the constructor returns the adapter, then LoadPolicy, SavePolicy
\* of a model and LoadPolicy into an empty model are called one after the
\* other, no other actor in between and no failure of the transport.  The
\* first LoadPolicy meets ContainerNotFound and returns nil with the model
\* as it was; the SavePolicy returns nil after CreateContainer and
\* UploadStream, and the container and the blob exist; the last LoadPolicy
\* returns nil and the model holds exactly the rules of the model saved.
C26_FirstUseFlow ==
    [][(version = "lazy" /\ Called)
       => /\ (/\ last'.op = "LoadPolicy" /\ last'.flow = 1
              /\ last'.dl \notin Faults)
             => (/\ last'.dl = "ContainerNotFound"
                 /\ last'.err = "nil"
                 /\ last'.out = last'.in)
          /\ (/\ last'.op = "SavePolicy" /\ last'.flow = 2
              /\ last'.cc \notin Faults /\ last'.ul \notin Faults)
             => (/\ last'.err = "nil"
                 /\ last'.calls = <<"CreateContainer", "UploadStream">>
                 /\ ContainerName \in containers'
                 /\ TargetKey \in DOMAIN blobs')
          /\ (/\ last.op = "SavePolicy" /\ last.flow = 2 /\ last.err = "nil"
              /\ last'.op = "LoadPolicy" /\ last'.a = last.a
              /\ last'.in = EmptyModel
              /\ last'.dl \notin Faults)
             => (/\ last'.dl = "nil"
                 /\ last'.err = "nil"
                 /\ SameRules(last'.out, last.in))]_vars

\* C27: lazy version: the grace is one for the two not-found codes: on an
\* adapter on which a LoadPolicy that met ContainerNotFound has returned
\* nil, a LoadPolicy that meets BlobNotFound returns the error that wraps
\* ErrBlobDoesNotExist, and on an adapter on which a LoadPolicy that met
\* BlobNotFound has returned nil, a LoadPolicy that meets ContainerNotFound
\* returns the error that wraps ErrContainerDoesNotExist.
C27_GraceSharedByKinds ==
    (version = "lazy" /\ last.op = "LoadPolicy")
    => /\ ("ContainerNotFound" \in last.kinds /\ last.dl = "BlobNotFound"
             => last.err = "ErrBlobDoesNotExist")
       /\ ("BlobNotFound" \in last.kinds /\ last.dl = "ContainerNotFound"
             => last.err = "ErrContainerDoesNotExist")

\* a LoadPolicy has met the missing container and returned the error on an
\* adapter whose grace went to a missing blob
C27_Witness ==
    /\ version = "lazy"
    /\ last.op = "LoadPolicy"
    /\ last.kinds = {"BlobNotFound"}
    /\ last.dl = "ContainerNotFound"
    /\ last.err = "ErrContainerDoesNotExist"
    /\ last.out = last.in

\* the pages of the listing that the loop has read: those before the page
\* whose request fails
PagesRead(l) == IF l.failAt = 0 THEN 1..Len(l.pages) ELSE 1..(l.failAt - 1)

\* C28: eager version: the initializer takes the container (the blob) for
\* existing exactly when a page of the listing filtered by the prefix holds
\* an item whose name is the target name: for every way the store can page
\* the listing, the loop finds the name exactly when a page it reads holds
\* it, on the first page or a later one; and a constructor creates the
\* container (uploads the empty blob) exactly when its listing did not fail
\* and the store held no container (no blob) of that very name, whether or
\* not it held one whose name begins with the target name.
C28_ExactNameOnAnyPage ==
    [][(version = "eager" /\ Called /\ last'.op = "New" /\ last'.calls # <<>>)
       => /\ \A l \in ListContainersOutcomes(Store, ContainerName) :
                PagerLoop(l, 1, ContainerName).found
                <=> \E i \in PagesRead(l) : ContainerName \in l.pages[i]
          /\ \A l \in ListBlobsOutcomes(Store, ContainerName, BlobName) :
                PagerLoop(l, 1, BlobName).found
                <=> \E i \in PagesRead(l) : BlobName \in l.pages[i]
          /\ ("CreateContainer" \in Range(last'.calls)
                <=> (/\ ContainerName \notin containers
                     /\ \/ "ListBlobs" \in Range(last'.calls)
                        \/ last'.err \notin {"nil", "ErrTransport"}
                        \/ last'.calls[Len(last'.calls)] = "CreateContainer"))
          /\ ("UploadStream" \in Range(last'.calls)
                => TargetKey \notin DOMAIN blobs)
          /\ (last'.err = "nil"
                => ("UploadStream" \in Range(last'.calls)
                      <=> TargetKey \notin DOMAIN blobs))]_vars

\* a constructor has found the container on the second page of the listing,
\* after a page that held only a name that begins with the target name, and
\* has uploaded the blob although a blob whose name begins with its name
\* was listed
C28_Witness ==
    /\ version = "eager"
    /\ last.op = "New"
    /\ last.err = "nil"
    /\ Count(last.calls, "ListContainers") = 2
    /\ "CreateContainer" \notin Range(last.calls)
    /\ "UploadStream" \in Range(last.calls)
    /\ OtherContainer \in containers
    /\ BlobKey(ContainerName, OtherBlob) \in DOMAIN blobs

\* the calls of createContainerIfNotExist
ContainerCalls == {"ListContainers", "CreateContainer"}

\* C29: eager version: the initializer deals with the container before the
\* blob: the calls of a constructor on the store begin with the listing of
\* the containers, and every call about the container comes before every
\* call about the blob; the call that fails is the last one, and its error
\* is returned as the store gave it, with no adapter.  When the listing of
\* the containers or the creation of the container fails, no blob is listed
\* and none uploaded; when the listing of the blobs or the upload fails,
\* the constructor returns that error and no adapter as well.
C29_ContainerBeforeBlob ==
    (version = "eager" /\ last.op = "New")
    => LET cs == last.calls
       IN  /\ adapter[last.a].ok <=> last.err = "nil"
           /\ (last.err = "nil" => "ListBlobs" \in Range(cs))
           /\ (cs # <<>> => cs[1] = "ListContainers")
           /\ \A i, j \in DOMAIN cs :
                 (i < j /\ cs[j] \in ContainerCalls) => cs[i] \in ContainerCalls
           /\ \A i \in DOMAIN cs :
                 (cs[i] \in {"CreateContainer", "UploadStream"} /\ i < Len(cs))
                 => (cs[i] = "CreateContainer" /\ cs[i + 1] = "ListBlobs")
           /\ (last.args.container \notin containers
                 => Range(cs) \subseteq ContainerCalls)
           /\ (cs # <<>> /\ last.err # "nil" => last.err = "ErrTransport")

\* a constructor whose creation of the container failed has returned the
\* error and no adapter, and has listed and uploaded no blob
C29_Witness ==
    /\ version = "eager"
    /\ last.op = "New"
    /\ last.err = "ErrTransport"
    /\ ~adapter[last.a].ok
    /\ last.calls = <<"ListContainers", "CreateContainer">>
    /\ ContainerName \notin containers

\* the model after the first k of the lines have been handed to the parser
RECURSIVE FoldLines(_, _, _)
FoldLines(lines, m, k) ==
    IF k = 0 THEN m
    ELSE LoadPolicyLine(TrimSpace(lines[k]), FoldLines(lines, m, k - 1)).model

\* the lines the parser rejects
RejectedLines(lines) ==
    {i \in DOMAIN lines :
        LoadPolicyLine(TrimSpace(lines[i]), EmptyModel).err # "nil"}

\* C30: a LoadPolicy whose download succeeded and whose document holds a
\* line the parser rejects returns the error of the first such line, has
\* handed to the parser the lines up to that one and none after it, and
\* leaves in the model the rules of the lines before it; a document without
\* such a line is handed over whole and LoadPolicy returns nil.
C30_DecodeFailsFast ==
    (last.op = "LoadPolicy" /\ last.dl = "nil")
    => LET lines == ScanLines(blobs[TargetKey])
           bad == RejectedLines(lines)
       IN  IF bad = {}
           THEN /\ last.err = "nil"
                /\ last.fed = Len(lines)
                /\ last.out = FoldLines(lines, last.in, Len(lines))
           ELSE LET f == CHOOSE i \in bad : \A j \in bad : i <= j
                IN  /\ last.err = "ErrParse"
                    /\ last.fed = f
                    /\ last.out = FoldLines(lines, last.in, f - 1)

\* a LoadPolicy has stopped at the second of three lines, the rule of the
\* first line in the model, the rule of the third not
C30_Witness ==
    /\ last.op = "LoadPolicy"
    /\ last.dl = "nil"
    /\ last.err = "ErrParse"
    /\ last.in = EmptyModel
    /\ Len(ScanLines(blobs[TargetKey])) = 3
    /\ last.fed = 2
    /\ last.out = [EmptyModel EXCEPT ![PT_p] = << <<B>> >>]

\* the line holds nothing but whitespace
Blank(line) == \A i \in DOMAIN line : IsSpace(line[i])

\* C31: a SavePolicy of a model without rules hands a text of length zero
\* to UploadStream; a LoadPolicy whose download succeeded on a document of
\* length zero, or one whose lines are all empty or whitespace, returns nil
\* and leaves the model as it was; and every rule a LoadPolicy that
\* returned nil has added to the model is the rule of a line of the
\* document read without the whitespace around it.
C31_EmptyDocuments ==
    /\ (/\ last.op = "SavePolicy" /\ last.calls # <<>>
        /\ \A pt \in DOMAIN last.in : last.in[pt] = <<>>)
       => last.text = <<>>
    /\ (last.op = "LoadPolicy" /\ last.dl = "nil")
       => LET lines == ScanLines(blobs[TargetKey])
          IN  /\ (\A i \in DOMAIN lines : Blank(lines[i]))
                 => (last.err = "nil" /\ last.out = last.in)
              /\ last.err = "nil"
                 => \A pt \in DOMAIN last.out :
                       \A rule \in Range(last.out[pt]) \ Range(last.in[pt]) :
                          \E i \in DOMAIN lines :
                             CsvRead(TrimSpace(lines[i])) = <<pt>> \o rule

\* a LoadPolicy into a model that holds rules has read a document of three
\* lines of whitespace and returned nil
C31_Witness ==
    /\ last.op = "LoadPolicy"
    /\ last.dl = "nil"
    /\ blobs[TargetKey] = <<SP, NL, NL, SP, SP>>
    /\ last.fed = 3
    /\ last.err = "nil"
    /\ last.in = M1
    /\ last.out = M1

\* the error of the first check that fails, in the order account, secret
\* (credential, key or connection string), container, blob; "nil" when no
\* argument is empty.  NewAdapterFromConnectionString takes no account.
FirstInvalid(args) ==
    IF args.ctor # "NewAdapterFromConnectionString" /\ args.account = <<>>
    THEN "ErrInvalidAccount"
    ELSE IF args.secret = <<>>
    THEN (CASE args.ctor = "NewAdapter" -> "ErrInvalidCredential"
            [] args.ctor = "NewAdapterFromConnectionString" ->
                   "ErrInvalidConnectionString"
            [] args.ctor = "NewAdapterFromSharedKeyCredential" ->
                   "ErrInvalidKey")
    ELSE IF args.container = <<>> THEN "ErrInvalidContainer"
    ELSE IF args.blob = <<>> THEN "ErrInvalidBlob"
    ELSE "nil"

\* the errors of the argument checks
InvalidErrors ==
    {"ErrInvalidAccount", "ErrInvalidCredential", "ErrInvalidConnectionString",
     "ErrInvalidKey", "ErrInvalidContainer", "ErrInvalidBlob"}

\* C32: the checks of a constructor have a fixed order: the account, then
\* the credential, the key or the connection string, then the container,
\* then the blob.  A constructor called with one or more empty arguments
\* returns the error of the first check that fails in this order, no
\* adapter, and calls nothing on the store; called with no empty argument
\* it returns none of these errors.
C32_ValidationPrecedence ==
    last.op = "New"
    => IF FirstInvalid(last.args) # "nil"
       THEN /\ last.err = FirstInvalid(last.args)
            /\ ~adapter[last.a].ok
            /\ last.calls = <<>>
       ELSE last.err \notin InvalidErrors

\* NewAdapter called with every argument empty has returned the error of the
\* account
C32_Witness ==
    /\ last.op = "New"
    /\ last.args.ctor = "NewAdapter"
    /\ last.args.account = <<>>
    /\ last.args.secret = <<>>
    /\ last.args.container = <<>>
    /\ last.args.blob = <<>>
    /\ last.err = "ErrInvalidAccount"
    /\ ~adapter[last.a].ok

\* C33: lazy version: the flag initiated belongs to one adapter: a call on
\* an adapter leaves the fields of every other adapter, initiated among
\* them, as they were, and a LoadPolicy that meets a not-found returns nil
\* exactly when no earlier not-found LoadPolicy on the same adapter has
\* returned nil, whatever has been loaded, tolerated or saved through
\* another adapter on the same target.
C33_FlagPerAdapter ==
    [][(/\ version = "lazy" /\ Called
        /\ last'.op \in {"New", "LoadPolicy", "SavePolicy"})
       => /\ \A b \in Adapters \ {last'.a} : adapter'[b] = adapter[b]
          /\ (last'.op = "LoadPolicy" /\ last'.dl \in NotFoundCodes)
             => (/\ last'.err = "nil" <=> ~last'.graced
                 /\ adapter'[last'.a].initiated)]_vars

\* the second adapter has met its first not-found and returned nil, after
\* the first adapter had spent its grace and saved, and the blob was
\* deleted
C33_Witness ==
    /\ version = "lazy"
    /\ last.op = "LoadPolicy"
    /\ last.a = "a2"
    /\ last.dl = "BlobNotFound"
    /\ last.err = "nil"
    /\ ~last.pre.initiated
    /\ adapter["a2"].initiated
    /\ adapter["a1"].ok
    /\ adapter["a1"].initiated
    /\ "a1" \in saved

\* the loop on listing l for the name has requested no page that does not
\* exist, has stopped at the first page that holds the name, and has
\* otherwise read up to the last page or the page whose request failed
StopsAtMatch(l, name) ==
    LET r == PagerLoop(l, 1, name)
    IN  /\ r.fetched \in 1..Len(l.pages)
        /\ \A i \in 1..(r.fetched - 1) : name \notin l.pages[i]
        /\ (r.found => r.err = "nil" /\ name \in l.pages[r.fetched])
        /\ (~r.found /\ r.err = "nil" => r.fetched = Len(l.pages))
        /\ (r.err # "nil" => r.fetched = l.failAt)

\* C34: eager version: the initializer ends on every listing of finitely
\* many pages: it requests each page at most once and none after the one
\* that holds the very name; one constructor call makes at most as many
\* page requests per listing as the listing has pages, at most one
\* CreateContainer and at most one UploadStream.
C34_InitializerTerminates ==
    [][(version = "eager" /\ Called /\ last'.op = "New" /\ last'.calls # <<>>)
       => /\ \A l \in ListContainersOutcomes(Store, ContainerName) :
                StopsAtMatch(l, ContainerName)
          /\ \A l \in ListBlobsOutcomes(Store, ContainerName, BlobName) :
                StopsAtMatch(l, BlobName)
          /\ Count(last'.calls, "ListContainers") \in 1..MaxPages
          /\ Count(last'.calls, "ListBlobs") \in 0..MaxPages
          /\ Count(last'.calls, "CreateContainer") <= 1
          /\ Count(last'.calls, "UploadStream") <= 1
          /\ Len(last'.calls) <= 2 * MaxPages + 2]_vars

\* a constructor has read two pages of containers and two pages of blobs
\* and created both the container and the blob
C34_Witness ==
    /\ version = "eager"
    /\ last.op = "New"
    /\ last.err = "nil"
    /\ Count(last.calls, "ListContainers") = 2
    /\ Count(last.calls, "CreateContainer") = 1
    /\ Count(last.calls, "UploadStream") = 1
    /\ OtherContainer \in containers

====
